---- MODULE Spec2Model ----
(***************************************************************************)
(* Tile-based delta video codec of font2header: the GIF encoders (RVV v5,  *)
(* legacy RVV2), the video encoders (RV v2/v3, dedicated RV v2) and the    *)
(* raw video encoder RV v1.  Bytes are naturals in 0..255, buffers are     *)
(* sequences of bytes (index 0 of the code is index 1 here), and a value   *)
(* that may be null/undefined is a sequence of length at most one.         *)
(***************************************************************************)
EXTENDS Integers, Sequences, FiniteSets, TLC

\* ------------------------------------------------------------------ bounds
\* Largest number of frames a source delivers.
MaxFrames == 3
\* Largest number of tiles of a canvas.
MaxTiles == 2
\* Largest keyframe interval given on the command line.
MaxKf == 2

\* --------------------------------------------------------------- constants
TILE == 8
TILE_W == 8
TILE_H == 8

VARIABLES
    variant,            \* which encoder runs ("rvv5", "rvv2", "rv23", "rv2", "rv1"), or which part on its own
    pc,                 \* "run" while the output is open, "closed" after close
    WIDTH, HEIGHT,      \* gif.lsd.width / height           (GIF encoders)
    BPP,                \* --bpp                            (GIF encoders)
    FPS,                \* --fps                            (GIF encoders)
    KEYFRAME_INTERVAL,  \* --kf | 0                         (RVV v5)
    gct,                \* gif.gct, the global colour table (GIF encoders)
    framesLength,       \* frames.length
    frames,             \* the frames of the array visited so far
    gifFB,              \* the persistent canvas            (GIF encoders)
    prevFrame,          \* Null or the frame composited last
    prevTiles,          \* Null or the tile sequence of the frame encoded last
    frameIndex,         \* number of frames encoded
    out,                \* the bytes written to the output file
    tilesLog,           \* history: the tile sequence extracted for each frame
    keyLog,             \* history: isKeyframe of each frame
    prevLog,            \* history: prevTiles as each frame was diffed
    updLog,             \* history: the tile indices of each frame's updates
    BITS,               \* --bits                          (video encoder)
    width, height, fps, \* probed geometry and rate        (video encoder)
    nbFrames,           \* probed nb_frames, "frames" of the video encoder
    ffmpeg,             \* the decoder process: "none", "running", "aborted", "exited"
    stream,             \* history: every byte the decoder has written to stdout
    pipe,               \* bytes the decoder has produced and not yet delivered
    emitted,            \* number of frames the decoder has produced
    rgbBuf,             \* the residue buffered by the data handler
    skUpdates, skPos, skPrevIndex, skOut, \* the skip loop run on its own
    videoBytes,         \* bytes of video written so far    (audio variant)
    audioOffset,        \* file offset of the audio region  (audio variant)
    sampleCount         \* audio samples written so far     (audio variant)

vars == <<variant, pc, WIDTH, HEIGHT, BPP, FPS, KEYFRAME_INTERVAL, gct,
          framesLength, frames, gifFB, prevFrame, prevTiles, frameIndex, out,
          tilesLog, keyLog, prevLog, updLog, BITS, width, height, fps, nbFrames, ffmpeg, stream,
          pipe, emitted, rgbBuf, skUpdates, skPos, skPrevIndex, skOut,
          videoBytes, audioOffset, sampleCount>>

\* what has been fed to the encoder and what it computed, frame by frame
logVars == <<frames, tilesLog, keyLog, prevLog, updLog>>

\* the parameters and the state of the GIF encoders only
gifVars == <<WIDTH, HEIGHT, BPP, FPS, KEYFRAME_INTERVAL, gct, framesLength,
             gifFB, prevFrame>>

\* the parameters and the state of the video encoder only
rvParams == <<BITS, width, height, fps, nbFrames>>
rvVars == <<BITS, width, height, fps, nbFrames, ffmpeg, stream, pipe, emitted, rgbBuf>>

skipVars == <<skUpdates, skPos, skPrevIndex, skOut>>

\* the counters of the two-phase (video, then audio) writer only
audioVars == <<videoBytes, audioOffset, sampleCount>>

\* ----------------------------------------------------------------- helpers
Null == <<>>
Some(x) == <<x>>

Pow2(n) == 2 ^ n

\* (v >> b) & 1 for v >= 0
BitAt(v, b) == (v \div Pow2(b)) % 2

\* v | (bitval << k) for one bit
OrBit(v, bitval, k) == IF bitval = 1 /\ BitAt(v, k) = 0 THEN v + Pow2(k) ELSE v

\* Buffer.alloc(n)
BufferAlloc(n) == [i \in 1..n |-> 0]

\* buf.writeUInt16LE(v)
U16LE(v) == <<v % 256, (v \div 256) % 256>>

\* The concatenation of ss[lo], ..., ss[hi] (evaluated by halves).
RECURSIVE FlattenRange(_, _, _)
FlattenRange(ss, lo, hi) ==
    IF lo > hi THEN <<>>
    ELSE IF lo = hi THEN ss[lo]
    ELSE LET mid == (lo + hi) \div 2
         IN  FlattenRange(ss, lo, mid) \o FlattenRange(ss, mid + 1, hi)

Flatten(ss) == FlattenRange(ss, 1, Len(ss))

\* ------------------------------------------------- geometry (GIF encoders)
PALETTE_SIZE == Pow2(BPP)
TILES_X == WIDTH \div TILE
TILES_Y == HEIGHT \div TILE
TILE_COUNT == TILES_X * TILES_Y
BYTES_PER_TILE == (TILE * TILE * BPP) \div 8

\* ------------------------------------------------------------- packTile
\* PackStep filling each byte from its lowest bit
PackStepLsbFirst(st, p, b) ==
    LET v == BitAt(p, b)
        inside == st.byte + 1 <= Len(st.buf)
        buf1 == IF inside
                THEN [st.buf EXCEPT ![st.byte + 1] = OrBit(@, v, st.bit)]
                ELSE st.buf
        past1 == IF inside THEN st.past ELSE st.past + 1
    IN  IF st.bit + 1 = 8
        THEN [buf |-> buf1, bit |-> 0, byte |-> st.byte + 1, past |-> past1]
        ELSE [buf |-> buf1, bit |-> st.bit + 1, byte |-> st.byte, past |-> past1]

\* The body of the inner loop of packTile for sample p and its bit b, on the
\* loop's state: the buffer, the bit position and the byte position.
PackStep(st, p, b) ==
    LET v == BitAt(p, b)
        \* a write past the end of a Buffer is dropped; past counts them
        inside == st.byte + 1 <= Len(st.buf)
        buf1 == IF inside
                THEN [st.buf EXCEPT ![st.byte + 1] = OrBit(@, v, 7 - st.bit)]
                ELSE st.buf
        past1 == IF inside THEN st.past ELSE st.past + 1
    IN  IF st.bit + 1 = 8
        THEN [buf |-> buf1, bit |-> 0, byte |-> st.byte + 1, past |-> past1]
        ELSE [buf |-> buf1, bit |-> st.bit + 1, byte |-> st.byte, past |-> past1]

\* PackLoop taking the bits of a sample from the lowest up
RECURSIVE PackLoopLowFirst(_, _, _, _)
PackLoopLowFirst(pixels, lo, hi, st) ==
    IF lo > hi THEN st
    ELSE IF lo = hi
    THEN PackStep(st, pixels[(lo \div BPP) + 1], lo % BPP)
    ELSE LET mid == (lo + hi) \div 2
             st1 == PackLoopLowFirst(pixels, lo, mid, st)
         IN  CASE st1.bit >= 0 -> PackLoopLowFirst(pixels, mid + 1, hi, st1)

\* Passes lo..hi of the two nested loops, in order; pass k handles bit
\* BPP-1 - (k mod BPP) of sample k div BPP.  The passes are evaluated by
\* halves, the first half before the second (the CASE guard makes TLC
\* compute st1 there), which keeps the evaluation shallow.
RECURSIVE PackLoop(_, _, _, _)
PackLoop(pixels, lo, hi, st) ==
    IF lo > hi THEN st
    ELSE IF lo = hi
    THEN PackStep(st, pixels[(lo \div BPP) + 1], BPP - 1 - (lo % BPP))
    ELSE LET mid == (lo + hi) \div 2
             st1 == PackLoop(pixels, lo, mid, st)
         IN  CASE st1.bit >= 0 -> PackLoop(pixels, mid + 1, hi, st1)

\* The state of packTile after its loops: buf, bit, byte, and the number of
\* writes that fell past the end of buf.
PackRun(pixels) ==
    PackLoop(pixels, 0, Len(pixels) * BPP - 1,
             [buf |-> BufferAlloc(BYTES_PER_TILE), bit |-> 0, byte |-> 0, past |-> 0])

packTile(pixels) == PackRun(pixels).buf

\* Fault injection: the samples of a tile are taken column by column.
TilePixelsByColumn(fb, tx, ty) ==
    [k \in 1..(TILE * TILE) |->
        fb[(ty * TILE + ((k - 1) % TILE)) * WIDTH + (tx * TILE + ((k - 1) \div TILE)) + 1]]

\* The 64 samples of tile (tx, ty), rows then columns.
TilePixels(fb, tx, ty) ==
    [k \in 1..(TILE * TILE) |->
        fb[(ty * TILE + ((k - 1) \div TILE)) * WIDTH + (tx * TILE + ((k - 1) % TILE)) + 1]]

extractTiles(fb) ==
    [ti \in 1..TILE_COUNT |->
        packTile(TilePixels(fb, (ti - 1) % TILES_X, (ti - 1) \div TILES_X))]

\* ------------------------------------------------------- GIF compositing
\* Fault injection: the canvas is cleared after the frames that ask for no
\* disposal.
applyDisposalOnNone(fb, frame) ==
    IF frame.disposalType = 0 THEN [i \in 1..Len(fb) |-> 0] ELSE fb

applyDisposal(fb, frame) ==
    IF frame.disposalType = 2 THEN [i \in 1..Len(fb) |-> 0] ELSE fb

\* src[i] of a frame's pixel array; reading past its end gives undefined,
\* which a Uint8Array stores as 0.
SrcPix(frame, i) == IF i + 1 <= Len(frame.pixels) THEN frame.pixels[i + 1] ELSE 0
SrcDefined(frame, i) == i + 1 <= Len(frame.pixels)

\* Fault injection: the transparent samples are copied like the others.
BlitStepCopyAll(fb, frame, i) ==
    LET y == i \div frame.dims.width
        x == i % frame.dims.width
        dst == (frame.dims.top + y) * WIDTH + (frame.dims.left + x)
    IN  IF dst + 1 > Len(fb) THEN fb
        ELSE [fb EXCEPT ![dst + 1] = SrcPix(frame, i)]

\* The body of the loops of blitFrame for i = y * width + x.
BlitStep(fb, frame, i) ==
    LET y == i \div frame.dims.width
        x == i % frame.dims.width
        dst == (frame.dims.top + y) * WIDTH + (frame.dims.left + x)
        skip == /\ frame.transparentIndex # Null
                /\ SrcDefined(frame, i)
                /\ SrcPix(frame, i) = frame.transparentIndex[1]
    IN  \* a write past the end of a Uint8Array is dropped
        IF skip \/ dst + 1 > Len(fb) THEN fb
        ELSE [fb EXCEPT ![dst + 1] = SrcPix(frame, i)]

\* Passes lo..hi of the two nested loops, in order (evaluated by halves).
RECURSIVE BlitLoop(_, _, _, _)
BlitLoop(fb, frame, lo, hi) ==
    IF lo > hi THEN fb
    ELSE IF lo = hi THEN BlitStep(fb, frame, lo)
    ELSE LET mid == (lo + hi) \div 2
             fb1 == BlitLoop(fb, frame, lo, mid)
         IN  CASE Len(fb1) >= 0 -> BlitLoop(fb1, frame, mid + 1, hi)

blitFrame(fb, frame) == BlitLoop(fb, frame, 0, frame.dims.width * frame.dims.height - 1)

\* ---------------------------------------------------------- skip-index RLE
\* while (skip >= 255) { write 255; skip -= 255 }  write skip
\* (Buffer.from([skip]) stores skip modulo 256)
\* Fault injection: the loop runs while (skip > 255).
RECURSIVE SkipBytesOver(_)
SkipBytesOver(skip) ==
    IF skip > 255 THEN <<255>> \o SkipBytesOver(skip - 255) ELSE <<skip % 256>>

RECURSIVE SkipBytes(_)
SkipBytes(skip) ==
    IF skip >= 255 THEN <<255>> \o SkipBytes(skip - 255) ELSE <<skip % 256>>

\* Fault injection: a gap of zero writes no skip byte.
UpdateBytesNoZero(u, prevIndex) ==
    (IF u.index - prevIndex = 0 THEN <<>> ELSE SkipBytes(u.index - prevIndex)) \o u.data

\* Fault injection: prevIndex = u.index.
NextPrevIndexStays(u) == u.index

\* One pass of "for (const u of updates)": the bytes written for update u
\* with the current prevIndex.
UpdateBytes(u, prevIndex) == SkipBytes(u.index - prevIndex) \o u.data

NextPrevIndex(u) == u.index + 1

RECURSIVE SkipLoop(_, _)
SkipLoop(updates, prevIndex) ==
    IF updates = <<>> THEN <<>>
    ELSE UpdateBytes(Head(updates), prevIndex)
            \o SkipLoop(Tail(updates), NextPrevIndex(Head(updates)))

\* let prevIndex = 0; for (const u of updates) ...
EncodeUpdates(updates) == SkipLoop(updates, 0)


\* buf.write(str): the ASCII codes of the magic tags
MagicRVV == <<82, 86, 86>>
MagicRVV2 == <<82, 86, 86, 50>>

\* ------------------------------------------------------------ GIF inputs
\* gif.gct of n entries, entry i = [r, g, b]
GctOf(n) == [i \in 1..n |-> <<(i - 1) % 256, (7 * (i - 1)) % 256, 255 - ((i - 1) % 256)>>]

\* The canvas sizes, <<width, height>>, of at most MaxTiles tiles.
Geometries ==
    {<<TILE * tx, TILE * ty>> : tx \in 1..MaxTiles, ty \in 1..MaxTiles} \cap
    {<<TILE * tx, TILE * (n \div tx)>> : tx \in 1..MaxTiles, n \in 1..MaxTiles}

\* A run's parameters: one base configuration, and the configurations that
\* differ from it in the geometry, in the depth (one tile, with a table of
\* exactly 2^bpp entries), in the table's size or in the keyframe interval.
BaseGif == [WIDTH |-> 2 * TILE, HEIGHT |-> TILE, BPP |-> 1, gct |-> Some(GctOf(2)), kf |-> 0]

GifConfigs ==
    {[BaseGif EXCEPT !.WIDTH = g[1], !.HEIGHT = g[2]] : g \in Geometries}
    \cup {[BaseGif EXCEPT !.WIDTH = TILE, !.BPP = b, !.gct = Some(GctOf(Pow2(b)))] :
             b \in {1, 2, 4, 8}}
    \cup {[BaseGif EXCEPT !.gct = Some(GctOf(4))]}
    \cup {[BaseGif EXCEPT !.kf = k] : k \in 0..MaxKf}
    \* rejected by the validation
    \cup {[BaseGif EXCEPT !.BPP = 3], [BaseGif EXCEPT !.WIDTH = 12],
          [BaseGif EXCEPT !.gct = Null],
          [BaseGif EXCEPT !.BPP = 2]}

\* Pixel arrays of n samples.
Fill(n, v) == [i \in 1..n |-> v]
Alt(n) == [i \in 1..n |-> (i - 1) % 3]

FullRect == [left |-> 0, top |-> 0, width |-> WIDTH, height |-> HEIGHT]
PartRect == [left |-> 2, top |-> 1, width |-> 4, height |-> 3]

\* The frames decompressFrames may deliver for the current canvas: one
\* that covers it, one that covers it and has transparent samples, and a
\* small one with transparent samples that asks for the background to be
\* restored after it.
GifFrames ==
    { [dims |-> FullRect, pixels |-> Fill(WIDTH * HEIGHT, 1),
       transparentIndex |-> Null, disposalType |-> 1],
      [dims |-> FullRect, pixels |-> Alt(WIDTH * HEIGHT),
       transparentIndex |-> Some(0), disposalType |-> 0],
      [dims |-> PartRect, pixels |-> Alt(12),
       transparentIndex |-> Some(1), disposalType |-> 2] }

IsGif == variant \in {"rvv5", "rvv2"}

\* ------------------------------------------------- GIF encoders: start-up
\* The checks made before the output is opened.
\* GifConfigOk without the check of WIDTH
GifConfigOkAnyWidth ==
    /\ BPP \in {1, 2, 4, 8}
    /\ HEIGHT % TILE = 0
    /\ gct # Null /\ Len(gct[1]) >= PALETTE_SIZE

GifConfigOk ==
    /\ BPP \in {1, 2, 4, 8}
    /\ WIDTH % TILE = 0 /\ HEIGHT % TILE = 0
    /\ gct # Null /\ Len(gct[1]) >= PALETTE_SIZE

Validate ==
    /\ IsGif /\ pc = "start"
    /\ pc' = IF GifConfigOk THEN "checked" ELSE "error"
    /\ UNCHANGED <<variant, prevTiles, frameIndex, out>>
    /\ UNCHANGED <<gifVars, logVars, rvVars, skipVars, audioVars>>

\* RVV v5 header, 18 bytes
HeaderV5 ==
    MagicRVV \o <<5>> \o U16LE(WIDTH) \o U16LE(HEIGHT) \o <<TILE, TILE, BPP, FPS>>
        \o U16LE(framesLength) \o U16LE(PALETTE_SIZE) \o U16LE(KEYFRAME_INTERVAL)

\* RVV2 header, 16 bytes
HeaderV2 ==
    MagicRVV2 \o U16LE(WIDTH) \o U16LE(HEIGHT) \o <<8, 8, BPP, FPS>>
        \o U16LE(framesLength) \o U16LE(PALETTE_SIZE)

\* PaletteBytes writing every entry of gct
PaletteBytesWhole == Flatten([i \in 1..Len(gct[1]) |-> gct[1][i]])

\* for (i < PALETTE_SIZE) write gct[i]
PaletteBytes == Flatten([i \in 1..PALETTE_SIZE |-> gct[1][i]])

\* Fault injection: the palette is written before the header.
WriteHeaderPaletteFirst ==
    /\ IsGif /\ pc = "checked"
    /\ out' = PaletteBytes \o (IF variant = "rvv5" THEN HeaderV5 ELSE HeaderV2)
    /\ gifFB' = [i \in 1..(WIDTH * HEIGHT) |-> 0]
    /\ prevTiles' = Null
    /\ prevFrame' = Null
    /\ pc' = "run"
    /\ UNCHANGED <<variant, WIDTH, HEIGHT, BPP, FPS, KEYFRAME_INTERVAL, gct,
                   framesLength, frameIndex>>
    /\ UNCHANGED <<logVars, rvVars, skipVars, audioVars>>

\* fs.openSync, the header, the palette, and the zeroed canvas
WriteHeader ==
    /\ IsGif /\ pc = "checked"
    /\ out' = (IF variant = "rvv5" THEN HeaderV5 ELSE HeaderV2) \o PaletteBytes
    /\ gifFB' = [i \in 1..(WIDTH * HEIGHT) |-> 0]
    /\ prevTiles' = Null
    /\ prevFrame' = Null
    /\ pc' = "run"
    /\ UNCHANGED <<variant, WIDTH, HEIGHT, BPP, FPS, KEYFRAME_INTERVAL, gct,
                   framesLength, frameIndex>>
    /\ UNCHANGED <<logVars, rvVars, skipVars, audioVars>>

\* --------------------------------------------------- the frame differencer
\* The tile indices of an update list, in its order.
Indices(updates) == [j \in 1..Len(updates) |-> updates[j].index]

\* Fault injection: a keyframe leaves out the tiles that are all zero.
RECURSIVE AllUpdatesNonZero(_)
AllUpdatesNonZero(tiles) ==
    IF tiles = <<>> THEN <<>>
    ELSE LET n == Len(tiles)
         IN  AllUpdatesNonZero(SubSeq(tiles, 1, n - 1))
                 \o (IF tiles[n] = BufferAlloc(Len(tiles[n])) THEN <<>>
                     ELSE <<[index |-> n - 1, data |-> tiles[n]]>>)

\* Fault injection: a keyframe pushes its tiles from the last to the first.
AllUpdatesReversed(tiles) ==
    [i \in 1..Len(tiles) |-> [index |-> Len(tiles) - i, data |-> tiles[Len(tiles) + 1 - i]]]

AllUpdates(tiles) == [i \in 1..Len(tiles) |-> [index |-> i - 1, data |-> tiles[i]]]

\* Fault injection: the buffers are compared with !==, by identity, and two
\* buffers are never the same object.
RECURSIVE DiffLoopIdentity(_, _, _)
DiffLoopIdentity(tiles, prev, i) ==
    IF i > Len(tiles) THEN <<>>
    ELSE <<[index |-> i - 1, data |-> tiles[i]]>> \o DiffLoopIdentity(tiles, prev, i + 1)

\* for (i < TILE_COUNT) if (!tiles[i].equals(prevTiles[i])) updates.push(...)
RECURSIVE DiffLoop(_, _, _)
DiffLoop(tiles, prev, i) ==
    IF i > Len(tiles) THEN <<>>
    ELSE (IF tiles[i] # prev[i] THEN <<[index |-> i - 1, data |-> tiles[i]]>> ELSE <<>>)
            \o DiffLoop(tiles, prev, i + 1)

DiffUpdates(tiles, prev) == DiffLoop(tiles, prev, 1)

\* Fault injection: the interval is counted from 1.
isKeyframeLate(i) == i = 0 \/ (KEYFRAME_INTERVAL > 0 /\ (i + 1) % KEYFRAME_INTERVAL = 0)

\* RVV v5: frameIndex === 0 || (KEYFRAME_INTERVAL > 0 && frameIndex % KEYFRAME_INTERVAL === 0)
isKeyframeV5(i) == i = 0 \/ (KEYFRAME_INTERVAL > 0 /\ i % KEYFRAME_INTERVAL = 0)

\* Fault injection: a keyframe is diffed whenever previous tiles exist.
UpdatesDiffOnly(isKeyframe, tiles, prev) ==
    IF prev = Null THEN AllUpdates(tiles) ELSE DiffUpdates(tiles, prev[1])

\* if (isKeyframe || !prevTiles) every tile, else the tiles that differ
Updates(isKeyframe, tiles, prev) ==
    IF isKeyframe \/ prev = Null THEN AllUpdates(tiles) ELSE DiffUpdates(tiles, prev[1])

\* Fault injection: a frame without updates writes no frame header.
FrameHeaderSkipEmpty(isKeyframe, updates) ==
    IF updates = <<>> THEN <<>>
    ELSE <<IF isKeyframe THEN 1 ELSE 0>> \o U16LE(Len(updates))

\* FrameHeader v5: flags, update_count
FrameHeader(isKeyframe, updates) == <<IF isKeyframe THEN 1 ELSE 0>> \o U16LE(Len(updates))

\* Fault injection: a keyframe after the first leaves prevTiles as it was.
RetainTilesStale(tiles, isKeyframe, prev) ==
    IF isKeyframe /\ prev # Null THEN prev ELSE Some(tiles)

\* The tile sequence retained for the next frame.
RetainTiles(tiles, isKeyframe, prev) == Some(tiles)

\* Fault injection: the disposal applied before the blit is the one of the
\* frame being composited.
CompositeOwnDisposal(frame) == blitFrame(applyDisposal(gifFB, frame), frame)

\* The canvas a frame is extracted from: disposal of the previous frame,
\* then the blit.
Composite(frame) ==
    blitFrame(IF prevFrame # Null THEN applyDisposal(gifFB, prevFrame[1]) ELSE gifFB, frame)

\* One pass of frames.forEach of the RVV v5 encoder.
GifFrameV5 ==
    /\ variant = "rvv5" /\ pc = "run" /\ frameIndex < framesLength
    /\ \E frame \in GifFrames :
        /\ gifFB' = Composite(frame)
        /\ tilesLog' = Append(tilesLog, extractTiles(gifFB'))
        /\ LET tiles == tilesLog'[Len(tilesLog')]
               isKeyframe == isKeyframeV5(frameIndex)
               updates == Updates(isKeyframe, tiles, prevTiles)
           IN  /\ out' = out \o FrameHeader(isKeyframe, updates) \o EncodeUpdates(updates)
               /\ prevTiles' = RetainTiles(tiles, isKeyframe, prevTiles)
               /\ prevFrame' = Some(frame)
               /\ frames' = Append(frames, frame)
               /\ keyLog' = Append(keyLog, isKeyframe)
               /\ prevLog' = Append(prevLog, prevTiles)
               /\ updLog' = Append(updLog, Indices(updates))
    /\ frameIndex' = frameIndex + 1
    /\ UNCHANGED <<variant, pc, WIDTH, HEIGHT, BPP, FPS, KEYFRAME_INTERVAL, gct,
                   framesLength>>
    /\ UNCHANGED <<rvVars, skipVars, audioVars>>

\* Fault injection: the tile index is written as one byte.
RECURSIVE FlatUpdatesByteIndex(_)
FlatUpdatesByteIndex(diffs) ==
    IF diffs = <<>> THEN <<>>
    ELSE <<Head(diffs).index % 256>> \o Head(diffs).data \o FlatUpdatesByteIndex(Tail(diffs))

\* TileUpdates of the legacy RVV2 encoder: u16 index, data
RECURSIVE FlatUpdates(_)
FlatUpdates(diffs) ==
    IF diffs = <<>> THEN <<>>
    ELSE U16LE(Head(diffs).index) \o Head(diffs).data \o FlatUpdates(Tail(diffs))

\* One pass of frames.forEach of the legacy RVV2 encoder.
GifFrameV2 ==
    /\ variant = "rvv2" /\ pc = "run" /\ frameIndex < framesLength
    /\ \E frame \in GifFrames :
        /\ gifFB' = Composite(frame)
        /\ tilesLog' = Append(tilesLog, extractTiles(gifFB'))
        /\ LET tiles == tilesLog'[Len(tilesLog')]
               diffs == Updates(FALSE, tiles, prevTiles)
           IN  /\ out' = out \o U16LE(Len(diffs)) \o FlatUpdates(diffs)
               /\ prevTiles' = RetainTiles(tiles, FALSE, prevTiles)
               /\ prevFrame' = Some(frame)
               /\ frames' = Append(frames, frame)
               /\ keyLog' = Append(keyLog, prevTiles = Null)
               /\ prevLog' = Append(prevLog, prevTiles)
               /\ updLog' = Append(updLog, Indices(diffs))
    /\ frameIndex' = frameIndex + 1
    /\ UNCHANGED <<variant, pc, WIDTH, HEIGHT, BPP, FPS, KEYFRAME_INTERVAL, gct,
                   framesLength>>
    /\ UNCHANGED <<rvVars, skipVars, audioVars>>

\* fs.closeSync(out) after the loop
GifClose ==
    /\ IsGif /\ pc = "run" /\ frameIndex = framesLength
    /\ pc' = "closed"
    /\ UNCHANGED <<variant, prevTiles, frameIndex, out>>
    /\ UNCHANGED <<gifVars, logVars, rvVars, skipVars, audioVars>>

\* ------------------------------------------------- video encoder RV v2/v3
MagicRV == <<82, 86>>

\* buf.writeUInt32LE(v)
U32LE(v) == <<v % 256, (v \div 256) % 256, (v \div 65536) % 256, (v \div 16777216) % 256>>

\* a | b and a & b, bit by bit; the operands here are below 2^9
RECURSIVE OrBits(_, _, _)
OrBits(a, b, k) ==
    IF k < 0 THEN 0
    ELSE (IF BitAt(a, k) = 1 \/ BitAt(b, k) = 1 THEN Pow2(k) ELSE 0) + OrBits(a, b, k - 1)

RECURSIVE AndBits(_, _, _)
AndBits(a, b, k) ==
    IF k < 0 THEN 0
    ELSE (IF BitAt(a, k) = 1 /\ BitAt(b, k) = 1 THEN Pow2(k) ELSE 0) + AndBits(a, b, k - 1)

BitOr(a, b) == OrBits(a, b, 8)
BitAnd(a, b) == AndBits(a, b, 8)
ShiftRight(a, n) == a \div Pow2(n)
ShiftLeft(a, n) == a * Pow2(n)

\* rgb332 keeping three bits of blue
rgb332WideBlue(r, g, b) ==
    BitOr(BitOr(ShiftRight(r, 5), ShiftLeft(ShiftRight(g, 5), 3)), BitAnd(b, 224))

\* rgb333 with red in the high bits
rgb333RedHigh(r, g, b) ==
    BitOr(BitOr(ShiftLeft(ShiftRight(r, 5), 6), ShiftLeft(ShiftRight(g, 5), 3)), ShiftRight(b, 5))

\* RV v1: (r >> 5) | ((g >> 5) << 3) | (b & 0b11000000)
rgb888_to_rgb332(r, g, b) ==
    BitOr(BitOr(ShiftRight(r, 5), ShiftLeft(ShiftRight(g, 5), 3)), BitAnd(b, 192))

\* (r >> 5) | ((g >> 5) << 3) | (b & 0b11000000)
rgb332(r, g, b) ==
    BitOr(BitOr(ShiftRight(r, 5), ShiftLeft(ShiftRight(g, 5), 3)), BitAnd(b, 192))

\* ((b >> 5) << 6) | ((g >> 5) << 3) | (r >> 5)
rgb333(r, g, b) ==
    BitOr(BitOr(ShiftLeft(ShiftRight(b, 5), 6), ShiftLeft(ShiftRight(g, 5), 3)), ShiftRight(r, 5))

BYTES_PER_PIXEL == IF BITS = 8 THEN 1 ELSE 2
RvBytesPerTile == TILE_W * TILE_H * BYTES_PER_PIXEL
RV_VERSION == IF BITS = 8 THEN 2 ELSE 3
frameRGBSize == width * height * 3
framePixels == width * height

\* The colours of the frames the decoder produces here.
White == <<255, 255, 255>>
Green == <<31, 223, 64>>
Green2 == <<0, 192, 127>>
RvColors == {White, Green, Green2}

\* rgb332 and rgb333 tabulated over these colours: each is computed once
\* instead of once per pixel.
\* The channel values of the single pixels quantized on their own: both
\* sides of the steps of r >> 5, g >> 5 and b & 192.
ChannelValues == {0, 31, 32, 63, 64, 127, 128, 191, 192, 223, 224, 255}
ColorInputs == ChannelValues \X ChannelValues \X ChannelValues

\* The three functions on the colours of the decoder's frames, computed
\* once; any other colour is computed where it is met.
rgb332Of == [c \in RvColors |-> rgb332(c[1], c[2], c[3])]
rgb333Of == [c \in RvColors |-> rgb333(c[1], c[2], c[3])]
rgb888_to_rgb332Of == [c \in RvColors |-> rgb888_to_rgb332(c[1], c[2], c[3])]

rgb332At(c) == IF c \in RvColors THEN rgb332Of[c] ELSE rgb332(c[1], c[2], c[3])
rgb333At(c) == IF c \in RvColors THEN rgb333Of[c] ELSE rgb333(c[1], c[2], c[3])
rgb888_to_rgb332At(c) ==
    IF c \in RvColors THEN rgb888_to_rgb332Of[c] ELSE rgb888_to_rgb332(c[1], c[2], c[3])

\* The quantized frame: a Buffer (bytes) for 8 bits, a Uint16Array for 9.
Quantize(rgb) ==
    [i \in 1..framePixels |->
        LET c == <<rgb[3 * i - 2], rgb[3 * i - 1], rgb[3 * i]>>
        IN  IF BITS = 8 THEN rgb332At(c) % 256 ELSE rgb333At(c) % 65536]

\* RV v1: outFrame, one byte per pixel
QuantizeV1(rgb) ==
    [i \in 1..framePixels |->
        rgb888_to_rgb332At(<<rgb[3 * i - 2], rgb[3 * i - 1], rgb[3 * i]>>) % 256]

\* Fault injection: the samples of a tile are taken column by column.
RvTileByColumn(frame, w, tx, ty) ==
    LET sample(k) == frame[(ty * TILE_H + (k % TILE_H)) * w + tx * TILE_W + (k \div TILE_H) + 1]
    IN  IF BITS = 8
        THEN [o \in 1..RvBytesPerTile |-> sample(o - 1)]
        ELSE [o \in 1..RvBytesPerTile |-> U16LE(sample((o - 1) \div 2))[((o - 1) % 2) + 1]]

\* The tile at (tx, ty): pass k = y * TILE_W + x of the two inner loops
\* writes sample frame[row + x] at offset o, one byte or a 16-bit
\* little-endian word.
RvTile(frame, w, tx, ty) ==
    LET sample(k) == frame[(ty * TILE_H + (k \div TILE_W)) * w + tx * TILE_W + (k % TILE_W) + 1]
    IN  IF BITS = 8
        THEN [o \in 1..RvBytesPerTile |-> sample(o - 1)]
        ELSE [o \in 1..RvBytesPerTile |-> U16LE(sample((o - 1) \div 2))[((o - 1) % 2) + 1]]

\* extractTiles(frame, width, height) of the video encoder
extractTilesRv(frame, w, h) ==
    LET tilesX == w \div TILE_W
        tilesY == h \div TILE_H
    IN  [ti \in 1..(tilesX * tilesY) |-> RvTile(frame, w, (ti - 1) % tilesX, (ti - 1) \div tilesX)]

\* RV v2/v3 header, 16 bytes
HeaderRv ==
    MagicRV \o <<RV_VERSION>> \o U16LE(width) \o U16LE(height) \o U16LE(fps)
        \o U32LE(nbFrames) \o <<BITS, TILE_W, TILE_H>>

\* The frames the decoder may produce: RGB triples, row by row.
RvPatterns == {"white", "corner"}

\* "corner" is white in the first tile and at the end of the first row, and
\* two greens elsewhere.
RvPixel(p, x, y) ==
    CASE p = "white" -> White
      [] p = "corner" -> IF (x < TILE_W /\ y < TILE_H) \/ (x = width - 1 /\ y = 0) THEN White
                         ELSE IF x % 2 = 0 THEN Green ELSE Green2

RvFrame(p) ==
    [j \in 1..frameRGBSize |->
        RvPixel(p, ((j - 1) \div 3) % width, ((j - 1) \div 3) \div width)[((j - 1) % 3) + 1]]

RvConfigOk ==
    /\ BITS \in {8, 9}
    /\ width % TILE_W = 0 /\ height % TILE_H = 0

\* The dedicated RV v2 encoder takes 8 bits only, and writes the version
\* and the depth of its header as the literals 2 and 8.
Rv2ConfigOk ==
    /\ BITS = 8
    /\ width % TILE_W = 0 /\ height % TILE_H = 0

HeaderRv2 ==
    MagicRV \o <<2>> \o U16LE(width) \o U16LE(height) \o U16LE(fps)
        \o U32LE(nbFrames) \o <<8, TILE_W, TILE_H>>

IsRv == variant \in {"rv23", "rv2"}

\* RV v1 takes 8 bits only and makes no check of the geometry: it has no tiles.
Rv1ConfigOk == BITS = 8

\* RV v1 header, 14 bytes
HeaderRv1 ==
    MagicRV \o <<1>> \o U16LE(width) \o U16LE(height) \o U16LE(fps)
        \o U32LE(nbFrames) \o <<BITS>>

IsVideo == IsRv \/ variant = "rv1"

\* the header the running video encoder writes
VideoHeader ==
    CASE variant = "rv2" -> HeaderRv2
      [] variant = "rv1" -> HeaderRv1
      [] OTHER -> HeaderRv

\* The checks made before the output is opened: --bits, then the probed
\* geometry.
RvValidate ==
    /\ IsVideo /\ pc = "start"
    /\ pc' = IF (CASE variant = "rv2" -> Rv2ConfigOk
                   [] variant = "rv1" -> Rv1ConfigOk
                   [] OTHER -> RvConfigOk)
             THEN "checked" ELSE "error"
    /\ UNCHANGED <<variant, prevTiles, frameIndex, out>>
    /\ UNCHANGED <<gifVars, logVars, rvVars, skipVars, audioVars>>

\* fs.openSync, the header, and the decoder is started
RvWriteHeader ==
    /\ IsVideo /\ pc = "checked"
    /\ out' = VideoHeader
    /\ rgbBuf' = <<>>
    /\ prevTiles' = Null
    /\ frameIndex' = 0
    /\ ffmpeg' = "running"
    /\ pc' = "run"
    /\ UNCHANGED <<variant, stream, pipe, emitted>>
    /\ UNCHANGED <<gifVars, logVars, rvParams, skipVars, audioVars>>

\* The decoder process writes one more frame to its output; where the probe
\* reported no size, what it writes is not of the probed size: one pixel here.
FfmpegEmit ==
    /\ IsVideo /\ pc = "run" /\ ffmpeg = "running" /\ emitted < MaxFrames
    /\ \E p \in RvPatterns :
          \E bytes \in {IF frameRGBSize = 0 THEN White ELSE RvFrame(p)} :
              /\ pipe' = pipe \o bytes
              /\ stream' = stream \o bytes
    /\ emitted' = emitted + 1
    /\ UNCHANGED <<variant, pc, prevTiles, frameIndex, out, rgbBuf, ffmpeg>>
    /\ UNCHANGED <<gifVars, logVars, rvParams, skipVars, audioVars>>

\* The decoder process dies while it writes a frame: the first half of the
\* frame is the last of its output.
FfmpegAbort ==
    /\ IsVideo /\ pc = "run" /\ ffmpeg = "running"
    /\ LET part == SubSeq(RvFrame("corner"), 1, frameRGBSize \div 2)
       IN  /\ pipe' = pipe \o part
           /\ stream' = stream \o part
    /\ ffmpeg' = "aborted"
    /\ UNCHANGED <<variant, pc, prevTiles, frameIndex, out, rgbBuf, emitted>>
    /\ UNCHANGED <<gifVars, logVars, rvParams, skipVars, audioVars>>

\* RvEncode that empties the buffer instead of keeping what follows the frame
RvEncodeDropRest(st, rgb, tiles) ==
    LET isKeyframe == st.frameIndex = 0
        updates == Updates(isKeyframe, tiles, st.prevTiles)
    IN  [rgbBuf |-> <<>>,
         out |-> st.out \o FrameHeader(isKeyframe, updates) \o EncodeUpdates(updates),
         prevTiles |-> RetainTiles(tiles, isKeyframe, st.prevTiles),
         frameIndex |-> st.frameIndex + 1,
         frames |-> Append(st.frames, rgb),
         tilesLog |-> Append(st.tilesLog, tiles),
         keyLog |-> Append(st.keyLog, isKeyframe),
         prevLog |-> Append(st.prevLog, st.prevTiles),
         updLog |-> Append(st.updLog, Indices(updates))]

\* The second half of a pass of "while (rgbBuf.length >= frameRGBSize)":
\* the updates, the frame record, prevTiles and frameIndex.
RvEncode(st, rgb, tiles) ==
    LET isKeyframe == st.frameIndex = 0
        updates == Updates(isKeyframe, tiles, st.prevTiles)
    IN  [rgbBuf |-> SubSeq(st.rgbBuf, frameRGBSize + 1, Len(st.rgbBuf)),
         out |-> st.out \o FrameHeader(isKeyframe, updates) \o EncodeUpdates(updates),
         prevTiles |-> RetainTiles(tiles, isKeyframe, st.prevTiles),
         frameIndex |-> st.frameIndex + 1,
         frames |-> Append(st.frames, rgb),
         tilesLog |-> Append(st.tilesLog, tiles),
         keyLog |-> Append(st.keyLog, isKeyframe),
         prevLog |-> Append(st.prevLog, st.prevTiles),
         updLog |-> Append(st.updLog, Indices(updates))]

\* RV v1, one pass of its while loop: the frame is cut off the buffer, and
\* outFrame is written.
Rv1FrameStep(st) ==
    CHOOSE r \in { [st EXCEPT !.rgbBuf = SubSeq(st.rgbBuf, frameRGBSize + 1, Len(st.rgbBuf)),
                             !.out = st.out \o QuantizeV1(frame),
                             !.frameIndex = st.frameIndex + 1,
                             !.frames = Append(st.frames, frame)] :
                       frame \in {SubSeq(st.rgbBuf, 1, frameRGBSize)} } : TRUE

\* The dedicated RV v2 encoder, one pass of its while loop: frame332 by its
\* own rgb332, (r >> 5) | ((g >> 5) << 3) | (b & 0b11000000), whose three
\* fields do not overlap; the tiles by its own extractTiles; the updates, the
\* frame header, the skip-coded updates, prevTiles and frameIndex.
Rv2FrameStep(st) ==
    LET rgb == SubSeq(st.rgbBuf, 1, frameRGBSize)
        tilesX == width \div TILE_W
        tilesY == height \div TILE_H
        isKeyframe == st.frameIndex = 0
    IN  CHOOSE r \in UNION { UNION { UNION {
            { [rgbBuf |-> SubSeq(st.rgbBuf, frameRGBSize + 1, Len(st.rgbBuf)),
               out |-> st.out \o <<IF isKeyframe THEN 1 ELSE 0>> \o U16LE(Len(updates))
                          \o EncodeUpdates(updates),
               prevTiles |-> Some(tiles),
               frameIndex |-> st.frameIndex + 1,
               frames |-> Append(st.frames, rgb),
               tilesLog |-> Append(st.tilesLog, tiles),
               keyLog |-> Append(st.keyLog, isKeyframe),
               prevLog |-> Append(st.prevLog, st.prevTiles),
               updLog |-> Append(st.updLog, [j \in 1..Len(updates) |-> updates[j].index])] }
            : updates \in { IF isKeyframe \/ st.prevTiles = Null
                            THEN [i \in 1..Len(tiles) |-> [index |-> i - 1, data |-> tiles[i]]]
                            ELSE DiffLoop(tiles, st.prevTiles[1], 1) } }
            : tiles \in { [ti \in 1..(tilesX * tilesY) |->
                             [i \in 1..(TILE_W * TILE_H) |->
                                frame332[(((ti - 1) \div tilesX) * TILE_H + ((i - 1) \div TILE_W)) * width
                                         + ((ti - 1) % tilesX) * TILE_W + ((i - 1) % TILE_W) + 1]]] } }
            : frame332 \in { [i \in 1..(width * height) |->
                                (rgb[3 * i - 2] \div 32) + (rgb[3 * i - 1] \div 32) * 8
                                    + (rgb[3 * i] \div 64) * 64] } } : TRUE

\* One pass of the while loop of encoder v: the frame is cut off the buffer,
\* quantized and cut into tiles (each computed once), then encoded.
RvFrameStep(v, st) ==
    IF v = "rv1" THEN Rv1FrameStep(st)
    ELSE IF v = "rv2" THEN Rv2FrameStep(st)
    ELSE
    CHOOSE r \in UNION { UNION { { RvEncode(st, rgb, tiles) :
                                     tiles \in {extractTilesRv(frame, width, height)} } :
                                 frame \in {Quantize(rgb)} } :
                         rgb \in {SubSeq(st.rgbBuf, 1, frameRGBSize)} } : TRUE

RECURSIVE RvWhile(_, _)
RvWhile(v, st) ==
    IF Len(st.rgbBuf) >= frameRGBSize
    THEN CHOOSE r \in {RvWhile(v, st1) : st1 \in {RvFrameStep(v, st)}} : TRUE
    ELSE st

\* The lengths of the chunk the next 'data' event may carry.
ChunkSizes == {Len(pipe), frameRGBSize \div 2, frameRGBSize + 1} \cap 1..Len(pipe)

\* The handler's variables as the record the loop works on.
RvState(buf) ==
    [rgbBuf |-> buf, out |-> out,
     prevTiles |-> prevTiles, frameIndex |-> frameIndex,
     frames |-> frames, tilesLog |-> tilesLog, keyLog |-> keyLog,
     prevLog |-> prevLog, updLog |-> updLog]

\* ffmpeg.stdout.on('data', chunk => ...).  With a frame size of 0 the test
\* rgbBuf.length >= frameRGBSize never fails: the handler stays in its loop
\* (pc "spin"), whose passes are the steps of RvSpin.  The handler does not
\* look at whether the file is still open: it runs whenever a chunk arrives.
RvData ==
    /\ IsVideo /\ pc \in {"run", "closed"}
    /\ pc' = IF frameRGBSize = 0 THEN "spin" ELSE pc
    /\ \E n \in ChunkSizes :
        \E st \in {IF frameRGBSize = 0 THEN RvState(rgbBuf \o SubSeq(pipe, 1, n))
                   ELSE RvWhile(variant, RvState(rgbBuf \o SubSeq(pipe, 1, n)))} :
            /\ pipe' = SubSeq(pipe, n + 1, Len(pipe))
            /\ rgbBuf' = st.rgbBuf
            /\ out' = st.out
            /\ prevTiles' = st.prevTiles
            /\ frameIndex' = st.frameIndex
            /\ frames' = st.frames
            /\ tilesLog' = st.tilesLog
            /\ keyLog' = st.keyLog
            /\ prevLog' = st.prevLog
            /\ updLog' = st.updLog
    /\ UNCHANGED <<variant, emitted, ffmpeg, stream>>
    /\ UNCHANGED <<gifVars, rvParams, skipVars, audioVars>>

\* One pass of the while loop of a handler that cannot leave it.
RvSpin ==
    /\ IsVideo /\ pc = "spin" /\ frameIndex < MaxFrames
    /\ \E st \in {RvFrameStep(variant, RvState(rgbBuf))} :
            /\ rgbBuf' = st.rgbBuf
            /\ out' = st.out
            /\ prevTiles' = st.prevTiles
            /\ frameIndex' = st.frameIndex
            /\ frames' = st.frames
            /\ tilesLog' = st.tilesLog
            /\ keyLog' = st.keyLog
            /\ prevLog' = st.prevLog
            /\ updLog' = st.updLog
    /\ UNCHANGED <<variant, pc, pipe, emitted, ffmpeg, stream>>
    /\ UNCHANGED <<gifVars, rvParams, skipVars, audioVars>>

\* Fault injection: the file is closed when the decoder exits, with chunks of
\* its output still to be delivered.
RvCloseOnExit ==
    /\ IsVideo /\ pc = "run"
    /\ ffmpeg' = IF ffmpeg = "running" THEN "exited" ELSE ffmpeg
    /\ pc' = "closed"
    /\ UNCHANGED <<variant, prevTiles, frameIndex, out>>
    /\ UNCHANGED <<gifVars, logVars, rvParams, skipVars, audioVars>>
    /\ UNCHANGED <<stream, pipe, emitted, rgbBuf>>

\* ffmpeg.on('close', ...): 'close' is emitted once, after the decoder has
\* exited, of itself or aborted, and its stdout has ended: every chunk has
\* been delivered
RvClose ==
    /\ IsVideo /\ pc = "run" /\ pipe = <<>>
    /\ ffmpeg' = IF ffmpeg = "running" THEN "exited" ELSE ffmpeg
    /\ pc' = "closed"
    /\ UNCHANGED <<variant, prevTiles, frameIndex, out>>
    /\ UNCHANGED <<gifVars, logVars, rvParams, skipVars, audioVars>>
    /\ UNCHANGED <<stream, pipe, emitted, rgbBuf>>

\* The probed streams: one base stream, and the streams that differ from it
\* in the geometry or in the depth.
BaseRv == [width |-> 2 * TILE_W, height |-> TILE_H, BITS |-> 8]

RvConfigs ==
    {[BaseRv EXCEPT !.width = g[1], !.height = g[2]] : g \in Geometries}
    \cup {[BaseRv EXCEPT !.BITS = 9]}
    \* rejected by the validation
    \cup {[BaseRv EXCEPT !.BITS = 10], [BaseRv EXCEPT !.width = 12]}
    \* a stream whose size the probe could not tell
    \cup {[BaseRv EXCEPT !.width = 0, !.height = 0]}

\* The streams given to the dedicated RV v2 encoder; 9 bits are rejected.
Rv2Configs == {BaseRv, [BaseRv EXCEPT !.BITS = 9], [BaseRv EXCEPT !.width = 0, !.height = 0]}

\* The streams given to RV v1: any geometry is taken, 9 bits are rejected.
Rv1Configs == {BaseRv, [BaseRv EXCEPT !.width = 12], [BaseRv EXCEPT !.BITS = 9],
               [BaseRv EXCEPT !.width = 0, !.height = 0]}

\* ------------------------------------------------------------------- Init
InitSkipIdle ==
    /\ skUpdates = <<>> /\ skPos = 0 /\ skPrevIndex = 0 /\ skOut = <<>>

InitAudioIdle ==
    /\ videoBytes = 0 /\ audioOffset = 0 /\ sampleCount = 0

InitRvIdle ==
    /\ BITS = 0 /\ width = 0 /\ height = 0 /\ fps = 0 /\ nbFrames = 0
    /\ ffmpeg = "none" /\ stream = <<>>
    /\ pipe = <<>> /\ emitted = 0 /\ rgbBuf = <<>>

InitGif ==
    /\ variant \in {"rvv5", "rvv2"}
    /\ \E c \in GifConfigs :
        /\ WIDTH = c.WIDTH /\ HEIGHT = c.HEIGHT /\ BPP = c.BPP /\ gct = c.gct
        /\ KEYFRAME_INTERVAL = IF variant = "rvv5" THEN c.kf ELSE 0
    /\ FPS = 10
    /\ framesLength \in {0, MaxFrames}
    /\ pc = "start"
    /\ frames = <<>> /\ gifFB = <<>> /\ prevFrame = Null /\ prevTiles = Null
    /\ frameIndex = 0 /\ out = <<>>
    /\ tilesLog = <<>> /\ keyLog = <<>> /\ prevLog = <<>> /\ updLog = <<>>
    /\ InitRvIdle
    /\ InitSkipIdle
    /\ InitAudioIdle

InitGifIdle ==
    /\ WIDTH = 0 /\ HEIGHT = 0 /\ BPP = 0 /\ FPS = 0 /\ KEYFRAME_INTERVAL = 0
    /\ gct = Null /\ framesLength = 0 /\ gifFB = <<>> /\ prevFrame = Null

InitRv ==
    /\ variant \in {"rv23", "rv2", "rv1"}
    /\ \E c \in (CASE variant = "rv2" -> Rv2Configs
                   [] variant = "rv1" -> Rv1Configs
                   [] OTHER -> RvConfigs) :
          width = c.width /\ height = c.height /\ BITS = c.BITS
    /\ fps = 25
    /\ nbFrames \in {MaxFrames - 1, MaxFrames}
    /\ pc = "start"
    /\ ffmpeg = "none" /\ stream = <<>>
    /\ pipe = <<>> /\ emitted = 0 /\ rgbBuf = <<>>
    /\ frames = <<>> /\ prevTiles = Null
    /\ frameIndex = 0 /\ out = <<>>
    /\ tilesLog = <<>> /\ keyLog = <<>> /\ prevLog = <<>> /\ updLog = <<>>
    /\ InitGifIdle
    /\ InitSkipIdle
    /\ InitAudioIdle

Init == InitGif \/ InitRv

Next ==
    \/ Validate
    \/ WriteHeader
    \/ GifFrameV5
    \/ GifFrameV2
    \/ GifClose
    \/ RvValidate
    \/ RvWriteHeader
    \/ FfmpegEmit
    \/ FfmpegAbort
    \/ RvData
    \/ RvSpin
    \/ RvClose

Spec == Init /\ [][Next]_vars


\* ------------------------------------------------- the skip loop on its own
\* The loop that writes one frame's updates, one update per step, fed with
\* update lists whose gaps reach and pass 255 (a 320x240 picture has 1200
\* tiles), which the small pictures of Spec cannot produce.
MaxUpdates == 2

SkipIndices == {0, 1, 254, 255, 256, 511, 765}

\* Packed tiles of 1-bit pixels; their bytes include 255.
SkipBpt == (TILE * TILE) \div 8
SkipTiles == { [i \in 1..SkipBpt |-> 255],
               [i \in 1..SkipBpt |-> IF i % 2 = 0 THEN 255 ELSE i] }

\* updates are pushed in the order of the tile loop: ascending indices
SkipInputs ==
    UNION { { [j \in 1..n |-> [index |-> ix[j], data |-> d[j]]] :
                ix \in {f \in [1..n -> SkipIndices] :
                           \A j \in 2..n : f[j - 1] < f[j]},
                d \in [1..n -> SkipTiles] } : n \in 0..MaxUpdates }

InitSkip ==
    /\ variant = "skip" /\ pc = "skip"
    /\ skUpdates \in SkipInputs
    /\ skPos = 0 /\ skPrevIndex = 0 /\ skOut = <<>>
    /\ frames = <<>> /\ prevTiles = Null /\ frameIndex = 0 /\ out = <<>>
    /\ tilesLog = <<>> /\ keyLog = <<>> /\ prevLog = <<>> /\ updLog = <<>>
    /\ InitGifIdle
    /\ InitRvIdle
    /\ InitAudioIdle

\* one turn of  for (const u of updates) { ... }
SkipStep ==
    /\ variant = "skip" /\ skPos < Len(skUpdates)
    /\ LET u == skUpdates[skPos + 1]
       IN  /\ skOut' = skOut \o UpdateBytes(u, skPrevIndex)
           /\ skPrevIndex' = NextPrevIndex(u)
    /\ skPos' = skPos + 1
    /\ UNCHANGED <<variant, pc, prevTiles, frameIndex, out, skUpdates>>
    /\ UNCHANGED <<gifVars, logVars, rvVars, audioVars>>

NextSkip == SkipStep

SpecSkip == InitSkip /\ [][NextSkip]_vars


\* ---------------------------------------------------- packTile on its own
\* packTile applied to one tile of 64 samples at each depth.  The samples
\* are arithmetic progressions reduced modulo 2^BPP (what a palette of 2^BPP
\* entries gives) or modulo 256 (what a longer palette may give).
PackInputs(bpp) ==
    { [i \in 1..(TILE * TILE) |-> (a * (i - 1) + c) % m] :
        a \in {0, 1, 3, 7}, c \in {0, 1, 5, 255}, m \in {Pow2(bpp), 256} }

InitPack ==
    /\ variant = "pack" /\ pc = "pack"
    /\ BPP \in {1, 2, 4, 8}
    /\ WIDTH = TILE /\ HEIGHT = TILE
    /\ FPS = 0 /\ KEYFRAME_INTERVAL = 0 /\ gct = Null /\ framesLength = 0
    /\ gifFB \in PackInputs(BPP)
    /\ prevFrame = Null
    /\ frames = <<>> /\ prevTiles = Null /\ frameIndex = 0 /\ out = <<>>
    /\ tilesLog = <<>> /\ keyLog = <<>> /\ prevLog = <<>> /\ updLog = <<>>
    /\ InitRvIdle
    /\ InitSkipIdle
    /\ InitAudioIdle

\* out = packTile(pixels)
Pack ==
    /\ variant = "pack" /\ pc = "pack"
    /\ out' = packTile(gifFB)
    /\ pc' = "packed"
    /\ UNCHANGED <<variant, prevTiles, frameIndex>>
    /\ UNCHANGED <<gifVars, logVars, rvVars, skipVars, audioVars>>

NextPack == Pack

SpecPack == InitPack /\ [][NextPack]_vars


\* ---------------------------------------------------- blitFrame on its own
\* blitFrame applied once to a canvas of two tiles whose samples are 3 and 4.
\* The frames carry the samples 0, 1, 2; their rectangles, none wider than
\* the canvas, lie inside it or reach past its right or bottom edge (the
\* image descriptor of a GIF frame is not checked against the screen size).
BlitRects ==
    { [left |-> l, top |-> t, width |-> w, height |-> h] :
        l \in {0, 2, 12}, t \in {0, 1, 6}, w \in {4, 8, 16}, h \in {1, 3} }

BlitFrames ==
    { [dims |-> d, pixels |-> Alt(d.width * d.height),
       transparentIndex |-> ti, disposalType |-> 0] :
        d \in BlitRects, ti \in {Null, Some(0), Some(1)} }

InitBlit ==
    /\ variant = "blit" /\ pc = "blit"
    /\ WIDTH = 2 * TILE /\ HEIGHT = TILE /\ BPP = 2
    /\ FPS = 0 /\ KEYFRAME_INTERVAL = 0 /\ gct = Null /\ framesLength = 1
    /\ \E k \in {0, 1} : gifFB = [i \in 1..(WIDTH * HEIGHT) |-> 3 + ((i + k) % 2)]
    /\ prevFrame = Null
    /\ \E f \in BlitFrames : frames = <<f>>
    /\ prevTiles = Null /\ frameIndex = 0 /\ out = <<>>
    /\ tilesLog = <<>> /\ keyLog = <<>> /\ prevLog = <<>> /\ updLog = <<>>
    /\ InitRvIdle
    /\ InitSkipIdle
    /\ InitAudioIdle

\* blitFrame(frame)
Blit ==
    /\ variant = "blit" /\ pc = "blit"
    /\ gifFB' = blitFrame(gifFB, frames[1])
    /\ pc' = "blitted"
    /\ UNCHANGED <<variant, prevTiles, frameIndex, out>>
    /\ UNCHANGED <<WIDTH, HEIGHT, BPP, FPS, KEYFRAME_INTERVAL, gct, framesLength, prevFrame>>
    /\ UNCHANGED <<logVars, rvVars, skipVars, audioVars>>

NextBlit == Blit

SpecBlit == InitBlit /\ [][NextBlit]_vars


\* ------------------------------------------- the quantizers on their own
\* One frame of one tile is quantized and cut into its tile as the data
\* handlers do: by rgb332 or rgb333 and extractTiles (RV v2/v3), or by
\* rgb888_to_rgb332 into outFrame (RV v1).  The pixels of the frame are c
\* and c with its channels rotated, by turns.
ColorFrame(c) ==
    [j \in 1..(TILE_W * TILE_H * 3) |->
        IF ((j - 1) \div 3) % 2 = 0 THEN c[((j - 1) % 3) + 1] ELSE c[(j % 3) + 1]]

InitColor ==
    /\ variant \in {"color", "color1"} /\ pc = "color"
    /\ BITS \in (IF variant = "color" THEN {8, 9} ELSE {8})
    /\ width = TILE_W /\ height = TILE_H /\ fps = 0 /\ nbFrames = 0
    /\ ffmpeg = "none" /\ stream = <<>>
    /\ pipe = <<>> /\ emitted = 0
    /\ \E c \in ColorInputs : rgbBuf = ColorFrame(c)
    /\ frames = <<>> /\ prevTiles = Null /\ frameIndex = 0 /\ out = <<>>
    /\ tilesLog = <<>> /\ keyLog = <<>> /\ prevLog = <<>> /\ updLog = <<>>
    /\ InitGifIdle
    /\ InitSkipIdle
    /\ InitAudioIdle

\* frame[i] = BITS === 8 ? rgb332(r, g, b) : rgb333(r, g, b), then
\* extractTiles(frame, width, height)
QuantizeTile ==
    /\ variant = "color" /\ pc = "color"
    /\ out' = extractTilesRv(Quantize(rgbBuf), width, height)[1]
    /\ pc' = "quantized"
    /\ UNCHANGED <<variant, prevTiles, frameIndex>>
    /\ UNCHANGED <<gifVars, logVars, rvVars, skipVars, audioVars>>

\* outFrame[di++] = rgb888_to_rgb332(r, g, b)
QuantizeFrameV1 ==
    /\ variant = "color1" /\ pc = "color"
    /\ out' = QuantizeV1(rgbBuf)
    /\ pc' = "quantized"
    /\ UNCHANGED <<variant, prevTiles, frameIndex>>
    /\ UNCHANGED <<gifVars, logVars, rvVars, skipVars, audioVars>>

NextColor == QuantizeTile \/ QuantizeFrameV1

SpecColor == InitColor /\ [][NextColor]_vars

\* ------------------------------------------------------ reading a file back
\* The decoder of the format: the header gives the geometry, the body is a
\* run of frame records, and each record's updates overwrite tiles of the
\* decoder's tile array.
ByteAt(b, p) == IF p >= 1 /\ p <= Len(b) THEN b[p] ELSE -1
U16At(b, p) == ByteAt(b, p) + 256 * ByteAt(b, p + 1)
Slice(b, from, n) == [i \in 1..n |-> ByteAt(b, from + i - 1)]

DecFormat(b) ==
    IF Slice(b, 1, 4) = MagicRVV2 THEN "rvv2"
    ELSE IF Slice(b, 1, 3) = MagicRVV /\ ByteAt(b, 4) = 5 THEN "rvv5"
    ELSE IF Slice(b, 1, 2) = MagicRV THEN "rv23"
    ELSE "unknown"

\* tile count, bytes per tile and the position of the first frame record
DecGeometry(b) ==
    LET fmt == DecFormat(b)
    IN  IF fmt = "rv23"
        THEN [tiles |-> (U16At(b, 4) \div ByteAt(b, 15)) * (U16At(b, 6) \div ByteAt(b, 16)),
              bpt |-> ByteAt(b, 15) * ByteAt(b, 16) * (IF ByteAt(b, 14) = 8 THEN 1 ELSE 2),
              body |-> 17]
        ELSE [tiles |-> (U16At(b, 5) \div ByteAt(b, 9)) * (U16At(b, 7) \div ByteAt(b, 10)),
              bpt |-> (ByteAt(b, 9) * ByteAt(b, 10) * ByteAt(b, 11)) \div 8,
              body |-> (IF fmt = "rvv5" THEN 18 ELSE 16) + 3 * U16At(b, 15) + 1]

\* a skip: every byte 255 adds 255 and goes on, a byte below 255 ends it
RECURSIVE DecSkip(_, _, _)
DecSkip(b, pos, idx) ==
    IF pos > Len(b) THEN [index |-> -1, pos |-> pos]
    ELSE IF b[pos] = 255 THEN DecSkip(b, pos + 1, idx + 255)
    ELSE [index |-> idx + b[pos], pos |-> pos + 1]

\* count updates of the skip form, the running index starting at prevIndex
RECURSIVE DecUpdates(_, _, _, _, _)
DecUpdates(b, pos, count, prevIndex, bpt) ==
    IF count <= 0 \/ pos > Len(b) THEN [updates |-> <<>>, pos |-> pos]
    ELSE LET s == DecSkip(b, pos, prevIndex)
             u == [index |-> s.index, data |-> Slice(b, s.pos, bpt)]
             rest == DecUpdates(b, s.pos + bpt, count - 1, s.index + 1, bpt)
         IN  [updates |-> <<u>> \o rest.updates, pos |-> rest.pos]

\* count updates of the flat form: a 16-bit tile index, then the tile
RECURSIVE DecFlat(_, _, _, _)
DecFlat(b, pos, count, bpt) ==
    IF count <= 0 \/ pos > Len(b) THEN [updates |-> <<>>, pos |-> pos]
    ELSE LET u == [index |-> U16At(b, pos), data |-> Slice(b, pos + 2, bpt)]
             rest == DecFlat(b, pos + 2 + bpt, count - 1, bpt)
         IN  [updates |-> <<u>> \o rest.updates, pos |-> rest.pos]

\* the frame records from pos to the end of the file
RECURSIVE DecRecords(_, _, _, _)
DecRecords(b, pos, fmt, bpt) ==
    IF pos > Len(b) THEN <<>>
    ELSE IF fmt = "rvv2"
    THEN LET count == U16At(b, pos)
             r == DecFlat(b, pos + 2, count, bpt)
         IN  <<[flags |-> 0, count |-> count, updates |-> r.updates]>>
                 \o DecRecords(b, r.pos, fmt, bpt)
    ELSE LET count == U16At(b, pos + 1)
             r == DecUpdates(b, pos + 3, count, 0, bpt)
         IN  <<[flags |-> b[pos], count |-> count, updates |-> r.updates]>>
                 \o DecRecords(b, r.pos, fmt, bpt)

\* the updates of one record applied to a tile array, in their order
RECURSIVE DecApply(_, _, _)
DecApply(tiles, updates, j) ==
    IF j > Len(updates) THEN tiles
    ELSE DecApply([t \in 1..Len(tiles) |->
                      IF t = updates[j].index + 1 THEN updates[j].data ELSE tiles[t]],
                  updates, j + 1)

ZeroTiles(n, bpt) == [t \in 1..n |-> BufferAlloc(bpt)]

\* the decoder's tile array after the first i records
RECURSIVE DecStateAt(_, _, _)
DecStateAt(records, i, zero) ==
    IF i = 0 THEN zero
    ELSE DecApply(DecStateAt(records, i - 1, zero), records[i].updates, 1)

\* the frame records of the output written so far
Records ==
    LET g == DecGeometry(out)
    IN  DecRecords(out, g.body, DecFormat(out), g.bpt)

\* the decoder's tile array after each record of the output written so far
Decoded ==
    LET g == DecGeometry(out)
        recs == Records
    IN  [i \in 1..Len(recs) |-> DecStateAt(recs, i, ZeroTiles(g.tiles, g.bpt))]

Encoding == (IsGif \/ IsRv) /\ pc \in {"run", "closed"}
HasFlags == variant \in {"rvv5", "rv23", "rv2"}

\* ----------------------------------------------------------------- claims
\* C1: decoding the header and the frame records of the output, applying
\* each record's updates to a tile array that starts zeroed, leaves after
\* record i exactly the tiles the encoder extracted from frame i.
RoundTrip ==
    Encoding => Decoded = tilesLog

\* a difference record that rewrites some tiles and keeps others
RoundTripWitness ==
    /\ Encoding /\ Len(tilesLog) >= 2
    /\ LET r == Records[Len(tilesLog)]
       IN  /\ r.flags = 0
           /\ r.count > 0 /\ r.count < Len(tilesLog[1])
           /\ Decoded[Len(tilesLog)] = tilesLog[Len(tilesLog)]

\* C2: the flag byte of record i marks a keyframe exactly when i = 0 or
\* the keyframe interval K is positive and divides i; with K = 0, and in
\* the video encoder, only the first record is a keyframe.
KeyExpected(i) ==
    \/ i = 0
    \/ /\ variant = "rvv5" /\ KEYFRAME_INTERVAL > 0
       /\ \E m \in 1..i : i = m * KEYFRAME_INTERVAL

KeyframeFlags ==
    (Encoding /\ HasFlags) =>
        /\ Len(Records) = frameIndex
        /\ \A i \in 1..Len(Records) :
              Records[i].flags = (IF KeyExpected(i - 1) THEN 1 ELSE 0)

\* interval 2: frame 1 is a difference frame, frame 2 a keyframe
KeyframeFlagsWitness ==
    /\ variant = "rvv5" /\ KEYFRAME_INTERVAL = 2 /\ frameIndex >= 3
    /\ Records[2].flags = 0 /\ Records[3].flags = 1

\* C3: the record of a keyframe, or of a frame processed while no previous
\* tiles exist, carries every tile: its count is the tile count and its
\* updates are the tiles 0, 1, ... in order.
KeyframeComplete ==
    Encoding =>
        \A i \in 1..Len(tilesLog) :
            (keyLog[i] \/ prevLog[i] = Null) =>
                /\ Records[i].count = Len(tilesLog[i])
                /\ Indices(Records[i].updates) = [j \in 1..Len(tilesLog[i]) |-> j - 1]

\* a keyframe whose tiles all equal the previous frame's
KeyframeCompleteWitness ==
    /\ Encoding
    /\ \E i \in 2..Len(tilesLog) :
          /\ keyLog[i] /\ tilesLog[i] = tilesLog[i - 1]
          /\ Records[i].count = Len(tilesLog[i])

\* C4: in a difference frame, tile t is in the record exactly when its
\* packed bytes differ from the previous frame's tile t, and the bytes
\* written for it are the current frame's tile; so in the v5 encoder, the
\* legacy GIF encoder and the video encoder.
DiffRule ==
    Encoding =>
        \A i \in 2..Len(tilesLog) :
            ~keyLog[i] =>
                LET r == Records[i]
                    changed == {t \in 0..(Len(tilesLog[i]) - 1) :
                                   tilesLog[i][t + 1] # tilesLog[i - 1][t + 1]}
                IN  /\ r.count = Cardinality(changed)
                    /\ Len(r.updates) = r.count
                    /\ {r.updates[j].index : j \in 1..Len(r.updates)} = changed
                    /\ \A j \in 1..Len(r.updates) :
                          r.updates[j].data = tilesLog[i][r.updates[j].index + 1]

\* a difference frame with a changed and an unchanged tile
DiffRuleWitness ==
    /\ Encoding
    /\ \E i \in 2..Len(tilesLog) :
          /\ ~keyLog[i]
          /\ \E t, u \in 1..Len(tilesLog[i]) :
                /\ tilesLog[i][t] # tilesLog[i - 1][t]
                /\ tilesLog[i][u] = tilesLog[i - 1][u]
          /\ Records[i].count = 1

\* C5: when frame i is diffed, prevTiles holds the tiles of frame i - 1,
\* keyframe or not; before the first frame it holds nothing.
PrevTilesTracks ==
    /\ \A i \in 1..Len(prevLog) :
          prevLog[i] = IF i = 1 THEN Null ELSE Some(tilesLog[i - 1])
    /\ (Encoding /\ tilesLog # <<>>) => prevTiles = Some(tilesLog[Len(tilesLog)])

\* a frame diffed right after a keyframe that was not the first frame
PrevTilesTracksWitness ==
    /\ Len(prevLog) >= 3 /\ keyLog[2]
    /\ tilesLog[2] # tilesLog[1]
    /\ prevLog[3] = Some(tilesLog[2])

\* C6 as stated: a difference frame identical to the frame before it has
\* an update count of 0, in the video encoder and in the GIF encoders for
\* every disposal directive and transparent index.
SameFrameNoUpdates ==
    Encoding =>
        \A i \in 2..Len(frames) :
            (frames[i] = frames[i - 1] /\ ~keyLog[i]) => Records[i].count = 0

\* C6: a difference frame identical to the frame before it has an update
\* count of 0 in the video encoder, and in the GIF encoders for every
\* transparent index when the frame's disposal directive is not "restore
\* to background"; that directive clears the canvas before the repeated
\* frame is drawn, so what showed through its transparent samples is lost.
SameFrameNoUpdatesKept ==
    Encoding =>
        \A i \in 2..Len(frames) :
            ( /\ frames[i] = frames[i - 1] /\ ~keyLog[i]
              /\ (IsRv \/ frames[i].disposalType # 2) )
            => Records[i].count = 0

\* a GIF frame with transparent samples, drawn over a canvas that shows
\* through it, repeated with no update
SameFrameNoUpdatesWitness ==
    /\ Encoding /\ IsGif
    /\ \E i \in 2..Len(frames) :
          /\ frames[i] = frames[i - 1] /\ ~keyLog[i]
          /\ frames[i].transparentIndex # Null /\ frames[i].disposalType # 2
          /\ tilesLog[i] # extractTiles(blitFrame([k \in 1..(WIDTH * HEIGHT) |-> 0], frames[i]))
          /\ Records[i].count = 0

\* C7: the updates of a keyframe record alone, applied to a zeroed tile
\* array, give the same tiles as decoding the whole stream up to and
\* including that record.
KeyframeSelfContained ==
    (Encoding /\ HasFlags) =>
        \A i \in 1..Len(Records) :
            Records[i].flags = 1 =>
                DecApply(ZeroTiles(Len(Decoded[i]), Len(tilesLog[i][1])),
                         Records[i].updates, 1) = Decoded[i]

\* a keyframe after the first frame with an all-zero tile where the frame
\* before had another tile
KeyframeSelfContainedWitness ==
    /\ Encoding /\ HasFlags
    /\ \E i \in 2..Len(Records) :
          /\ Records[i].flags = 1
          /\ \E t \in 1..Len(tilesLog[i]) :
                /\ tilesLog[i][t] = BufferAlloc(Len(tilesLog[i][t]))
                /\ tilesLog[i - 1][t] # tilesLog[i][t]

\* the gap written for the j-th update of a list
GapOf(updates, j) ==
    updates[j].index - (IF j = 1 THEN 0 ELSE updates[j - 1].index + 1)

\* floor(g / 255) bytes of 255, then the byte g mod 255
SkipRef(g) == [k \in 1..((g \div 255) + 1) |-> IF k <= g \div 255 THEN 255 ELSE g % 255]

\* C8: each update is written as its gap g from the previous update
\* (floor(g / 255) bytes of 255, then one byte g mod 255) followed by the
\* tile; a gap of 254 is the byte 254, of 255 the bytes 255 0, of 256 the
\* bytes 255 1.
SkipEncoding ==
    /\ skOut = Flatten([j \in 1..skPos |->
                           SkipRef(GapOf(skUpdates, j)) \o skUpdates[j].data])
    /\ \A j \in 1..skPos :
          LET g == GapOf(skUpdates, j)
              w == UpdateBytes(skUpdates[j],
                               IF j = 1 THEN 0 ELSE NextPrevIndex(skUpdates[j - 1]))
          IN  /\ g = 254 => w = <<254>> \o skUpdates[j].data
              /\ g = 255 => w = <<255, 0>> \o skUpdates[j].data
              /\ g = 256 => w = <<255, 1>> \o skUpdates[j].data

\* gaps of 254 and of 256 written one after the other
SkipEncodingWitness ==
    /\ variant = "skip" /\ skPos = 2
    /\ GapOf(skUpdates, 1) = 254 /\ GapOf(skUpdates, 2) = 256
    /\ SubSeq(skOut, 1, 1) = <<254>>
    /\ SubSeq(skOut, 2 + SkipBpt, 3 + SkipBpt) = <<255, 1>>

\* C9: a decoder that starts at index 0, adds 255 for every skip byte 255,
\* adds the first byte below 255, reads one tile for the index reached and
\* moves one past it, recovers the indices and the tiles of the updates,
\* also when the tiles contain bytes 255.
SkipRoundTrip ==
    /\ DecUpdates(skOut, 1, skPos, 0, SkipBpt).updates = SubSeq(skUpdates, 1, skPos)
    /\ DecUpdates(skOut, 1, skPos, 0, SkipBpt).pos = Len(skOut) + 1
    /\ skPos = Len(skUpdates) => skOut = EncodeUpdates(skUpdates)

\* two updates of tiles full of 255, a run of skip bytes between them
SkipRoundTripWitness ==
    /\ variant = "skip" /\ skPos = 2
    /\ \A k \in 1..SkipBpt : skUpdates[1].data[k] = 255
    /\ GapOf(skUpdates, 1) = 0 /\ GapOf(skUpdates, 2) >= 510
    /\ DecUpdates(skOut, 1, 2, 0, SkipBpt).updates = skUpdates

\* C10: in every variant the tile indices of a frame's updates are
\* strictly ascending, so no gap written by the skip loop is negative.
AscendingIndices ==
    \A i \in 1..Len(updLog) :
        \A j \in 1..Len(updLog[i]) :
            /\ j > 1 => updLog[i][j - 1] < updLog[i][j]
            /\ updLog[i][j] - (IF j = 1 THEN 0 ELSE updLog[i][j - 1] + 1) >= 0

\* a difference frame whose record holds at least two updates
AscendingIndicesWitness ==
    /\ Encoding /\ Len(updLog) >= 2
    /\ ~keyLog[Len(updLog)]
    /\ Len(updLog[Len(updLog)]) >= 2

\* C12: when the depth is not an allowed one, or the width or the height is
\* not a multiple of 8, or the global palette has fewer than 2^bpp entries,
\* the encoder never opens the output and never writes a byte: it is still
\* before its checks, or it has terminated with the error.
EagerConfigErrors ==
    LET badGif == \/ BPP \notin {1, 2, 4, 8}
                  \/ WIDTH % 8 # 0 \/ HEIGHT % 8 # 0
                  \/ gct = Null \/ Len(gct[1]) < Pow2(BPP)
        badRv == \/ BITS \notin (IF variant = "rv2" THEN {8} ELSE {8, 9})
                 \/ width % 8 # 0 \/ height % 8 # 0
    IN  ((IsGif /\ badGif) \/ (IsRv /\ badRv)) => (pc \in {"start", "error"} /\ out = <<>>)

\* a palette of 2 entries given with --bpp 2 has ended the run
EagerConfigErrorsWitness ==
    /\ IsGif /\ pc = "error" /\ out = <<>>
    /\ BPP = 2 /\ gct # Null /\ Len(gct[1]) < Pow2(BPP)

\* C13: an indexed stream is encoded only when the source palette has at most
\* 2^bpp entries, and then every sample of the canvas handed to packTile is
\* below 2^bpp.
IndexedSamplesValid ==
    (IsGif /\ Encoding) =>
        /\ Len(gct[1]) <= Pow2(BPP)
        /\ \A i \in 1..Len(gifFB) : gifFB[i] < Pow2(BPP)

\* C18: in the output of the GIF encoders the header's palette-size field is
\* 2^bpp; the 3 * 2^bpp bytes that follow the header are the first 2^bpp
\* entries of the global color table, in order; and what follows them is the
\* frame records, one per frame encoded so far with the update counts the
\* encoder made, so the palette is written once and before every record.
PaletteBlock ==
    (IsGif /\ Encoding) =>
        LET hdr == IF variant = "rvv5" THEN 18 ELSE 16
            n == Pow2(BPP)
            recs == DecRecords(out, hdr + 3 * n + 1, DecFormat(out), (64 * BPP) \div 8)
        IN  /\ U16At(out, 15) = n
            /\ Len(out) >= hdr + 3 * n
            /\ \A i \in 1..n : \A c \in 1..3 : out[hdr + 3 * (i - 1) + c] = gct[1][i][c]
            /\ Len(recs) = frameIndex
            /\ \A k \in 1..Len(recs) : recs[k].count = Len(updLog[k])

\* frames have been encoded from a source whose global color table is longer
\* than 2^bpp
PaletteBlockWitness ==
    /\ IsGif /\ Encoding /\ frameIndex >= 2
    /\ Len(gct[1]) > Pow2(BPP)

\* C11: when a GIF or tile video encoder has closed its output, the number of frame records
\* in it equals the frame count of its header (a u16 at offset 12 in the
\* GIF formats, a u32 at offset 9 in the video formats).
FrameCountMatches ==
    (pc = "closed" /\ (IsGif \/ IsRv)) =>
        Len(Records) = (IF IsGif THEN U16At(out, 13)
                        ELSE U16At(out, 10) + 65536 * U16At(out, 12))

\* the sample a reader takes at position j of a packed tile: BPP bits, the
\* first the highest
UnpackSample(buf, j) ==
    LET RECURSIVE Bits(_)
        Bits(i) == IF i >= BPP THEN 0
                   ELSE BitAt(ByteAt(buf, ((j * BPP + i) \div 8) + 1), 7 - ((j * BPP + i) % 8))
                            * Pow2(BPP - 1 - i) + Bits(i + 1)
    IN  Bits(0)

UnpackTile(buf) == [i \in 1..(TILE * TILE) |-> UnpackSample(buf, i - 1)]

\* C14: packTile gives 64 * bpp / 8 bytes; counting the bits of the output
\* from the highest bit of byte 0, bit k is bit (bpp-1 - k mod bpp) of sample
\* floor(k / bpp), whatever the sample holds above its bpp low bits; and no
\* write falls past the end of the buffer.
PackLayout ==
    (variant = "pack" /\ pc = "packed") =>
        /\ Len(out) = (64 * BPP) \div 8
        /\ \A k \in 0..(64 * BPP - 1) :
              BitAt(out[(k \div 8) + 1], 7 - (k % 8))
                  = BitAt(gifFB[(k \div BPP) + 1], BPP - 1 - (k % BPP))
        /\ PackRun(gifFB).past = 0

\* a tile is packed at 2 bits whose samples pass 2^bpp and are not all alike
PackLayoutWitness ==
    /\ variant = "pack" /\ pc = "packed" /\ BPP = 2
    /\ \E i \in 1..Len(gifFB) : gifFB[i] >= Pow2(BPP)
    /\ \E i \in 1..Len(out) : out[i] \notin {0, 255}

\* C15: when every sample is below 2^bpp, reading the packed tile back bpp
\* bits at a time, highest bit first, gives the samples that were packed.
PackRoundTrip ==
    (/\ variant = "pack" /\ pc = "packed"
     /\ \A i \in 1..Len(gifFB) : gifFB[i] < Pow2(BPP))
        => UnpackTile(out) = gifFB

\* a tile of 4-bit samples below 16, not all alike, is packed
PackRoundTripWitness ==
    /\ variant = "pack" /\ pc = "packed" /\ BPP = 4
    /\ \A i \in 1..Len(gifFB) : gifFB[i] < Pow2(BPP)
    /\ \E i \in 1..Len(gifFB) : gifFB[i] # gifFB[1]

\* C16: every pixel with channels r, g, b in 0..255 quantized to 8 bits, by
\* rgb332 or by rgb888_to_rgb332, is stored as the one byte
\* (r div 32) + 8 * (g div 32) + 64 * (b div 64), which is in 0..255 and
\* holds each channel's part apart from the others; white gives 255 and
\* black gives 0.
Rgb332Value ==
    (variant \in {"color", "color1"} /\ pc = "quantized" /\ BITS = 8) =>
        /\ Len(out) = 64
        /\ \A i \in 1..64 :
              LET r == rgbBuf[3 * i - 2]
                  g == rgbBuf[3 * i - 1]
                  b == rgbBuf[3 * i]
                  v == out[i]
              IN  /\ v = (r \div 32) + 8 * (g \div 32) + 64 * (b \div 64)
                  /\ v \in 0..255
                  /\ v % 8 = r \div 32 /\ (v \div 8) % 8 = g \div 32 /\ v \div 64 = b \div 64
                  /\ (r = 255 /\ g = 255 /\ b = 255) => v = 255
                  /\ (r = 0 /\ g = 0 /\ b = 0) => v = 0

\* a pixel whose three channels each sit just under a step is quantized by
\* RV v2/v3
Rgb332ValueWitness ==
    /\ variant = "color" /\ pc = "quantized" /\ BITS = 8
    /\ rgbBuf[1] = 223 /\ rgbBuf[2] = 31 /\ rgbBuf[3] = 191
    /\ out[1] = 134

\* C17: every pixel with channels r, g, b in 0..255 quantized to 9 bits is
\* 64 * (b div 32) + 8 * (g div 32) + (r div 32), in 0..511, and is stored
\* as two bytes, low byte first, the high byte 0 or 1; the tile has 128 bytes.
Rgb333Value ==
    (variant = "color" /\ pc = "quantized" /\ BITS = 9) =>
        /\ Len(out) = 128
        /\ \A i \in 1..64 :
              LET r == rgbBuf[3 * i - 2]
                  g == rgbBuf[3 * i - 1]
                  b == rgbBuf[3 * i]
                  v == out[2 * i - 1] + 256 * out[2 * i]
              IN  /\ v = 64 * (b \div 32) + 8 * (g \div 32) + (r \div 32)
                  /\ v \in 0..511
                  /\ out[2 * i - 1] \in 0..255
                  /\ out[2 * i] \in {0, 1}

\* a pixel whose value passes 255 and whose channels differ is quantized
Rgb333ValueWitness ==
    /\ variant = "color" /\ pc = "quantized" /\ BITS = 9
    /\ rgbBuf[1] = 32 /\ rgbBuf[2] = 64 /\ rgbBuf[3] = 224
    /\ out[1] = 209 /\ out[2] = 1

\* C19: however the decoder's stream has been cut into chunks, the video
\* encoder has taken every byte delivered, in order: the frames it processed
\* are the successive frameRGBSize-byte slices of the stream, as many as the
\* delivered bytes hold; what it buffers is the rest of the delivered bytes;
\* what is not yet delivered is the rest of the stream; and its output is
\* the output of the same bytes delivered as one chunk.
ChunkReassembly ==
    (IsVideo /\ pc \in {"run", "closed"} /\ frameRGBSize > 0) =>
        LET n == Len(stream) - Len(pipe)
            delivered == SubSeq(stream, 1, n)
            oneChunk == RvWhile(variant,
                                [rgbBuf |-> delivered, out |-> VideoHeader,
                                 prevTiles |-> Null, frameIndex |-> 0,
                                 frames |-> <<>>, tilesLog |-> <<>>, keyLog |-> <<>>,
                                 prevLog |-> <<>>, updLog |-> <<>>])
        IN  /\ n >= 0 /\ pipe = SubSeq(stream, n + 1, Len(stream))
            /\ frameIndex = n \div (width * height * 3)
            /\ Len(frames) = frameIndex
            /\ \A k \in 1..frameIndex :
                  frames[k] = SubSeq(stream, (k - 1) * width * height * 3 + 1,
                                     k * width * height * 3)
            /\ rgbBuf = SubSeq(stream, frameIndex * width * height * 3 + 1, n)
            /\ out = oneChunk.out

\* two frames have been processed from chunks that did not end on a pixel,
\* and a part of the next frame is buffered
ChunkReassemblyWitness ==
    /\ IsVideo /\ pc = "run" /\ frameIndex >= 2
    /\ Len(rgbBuf) % 3 # 0
    /\ pipe # <<>>

\* C20: a video encoder whose decoder's stream ended with a part of a frame
\* buffered, or with fewer frames than the header declares, has written the
\* records of the frames it received whole and does not finish as a normal
\* run: it is never found closed as after a complete stream.
AbnormalEndSurfaced ==
    (IsVideo /\ pc = "closed") => (rgbBuf = <<>> /\ frameIndex >= nbFrames)

\* C21: the canvas of a GIF encoder changes only in the step that takes the
\* next frame f, and there it becomes the blit of f onto the canvas as frame
\* i left it, reset to 0 when frame i, the frame taken before f, asked for
\* restore-to-background (disposalType 2), untouched for any other
\* directive and when f is the first frame; the tiles of f's record are those
\* of that canvas, so f's own directive is not in them, and the directive of
\* the last frame is never applied.
DisposalOrdering ==
    [][ IsGif =>
          IF frames' # frames
          THEN LET f == frames'[Len(frames')]
                   before == IF frames # <<>> /\ frames[Len(frames)].disposalType = 2
                             THEN [i \in 1..Len(gifFB) |-> 0]
                             ELSE gifFB
               IN  /\ frames' = Append(frames, f)
                   /\ gifFB' = blitFrame(before, f)
                   /\ tilesLog'[Len(tilesLog')] = extractTiles(gifFB')
          ELSE gifFB' = gifFB \/ (pc = "checked" /\ frames = <<>>)
      ]_vars

\* the output is closed after a frame that was composited on a canvas
\* cleared by its predecessor, and whose own clearing has not happened
DisposalOrderingWitness ==
    /\ IsGif /\ pc = "closed" /\ Len(frames) >= 3
    /\ frames[Len(frames) - 1].disposalType = 2
    /\ frames[Len(frames)].disposalType = 2
    /\ \E i \in 1..Len(gifFB) : gifFB[i] # 0

\* C22: a blit leaves every canvas cell of the frame's rectangle whose source
\* pixel is the frame's transparent value as it was, and sets every other
\* cell of the rectangle to its source pixel; with no transparent value every
\* cell of the rectangle is overwritten.
BlitTransparency ==
    [][ (variant = "blit" /\ pc = "blit") =>
          LET f == frames[1]
              d == f.dims
          IN  \A cy \in 0..(HEIGHT - 1) : \A cx \in 0..(WIDTH - 1) :
                (/\ d.left <= cx /\ cx < d.left + d.width
                 /\ d.top <= cy /\ cy < d.top + d.height) =>
                    LET src == f.pixels[(cy - d.top) * d.width + (cx - d.left) + 1]
                        cell == cy * WIDTH + cx + 1
                    IN  IF f.transparentIndex # Null /\ src = f.transparentIndex[1]
                        THEN gifFB'[cell] = gifFB[cell]
                        ELSE gifFB'[cell] = src
      ]_vars

\* a frame with transparent value 1 has been composited inside the canvas:
\* some cells of its rectangle were kept and some were set
BlitTransparencyWitness ==
    /\ variant = "blit" /\ pc = "blitted"
    /\ frames[1].transparentIndex = Some(1)
    /\ frames[1].dims = [left |-> 2, top |-> 1, width |-> 4, height |-> 3]
    /\ gifFB[1 * WIDTH + 2 + 1] = 0
    /\ gifFB[1 * WIDTH + 3 + 1] \in {3, 4}
    /\ gifFB[1 * WIDTH + 4 + 1] = 2

\* C28: a blit changes no canvas cell outside the frame's rectangle, whatever
\* rectangle the frame has.
BlitInsideRect ==
    [][ (variant = "blit" /\ pc = "blit") =>
          LET d == frames[1].dims
          IN  \A cy \in 0..(HEIGHT - 1) : \A cx \in 0..(WIDTH - 1) :
                ~(/\ d.left <= cx /\ cx < d.left + d.width
                  /\ d.top <= cy /\ cy < d.top + d.height) =>
                    gifFB'[cy * WIDTH + cx + 1] = gifFB[cy * WIDTH + cx + 1]
      ]_vars

\* C23: the output only grows, by bytes added at its end.  The first bytes
\* written are the header, begun by its magic tag, followed in the GIF
\* encoders by the palette, and no frame has a record yet; every later
\* write adds the records of the frames taken in that step, in their order,
\* and nothing else.
WriteOrder ==
    [][ (IsGif \/ IsVideo) =>
          /\ Len(out') >= Len(out) /\ SubSeq(out', 1, Len(out)) = out
          /\ (out = <<>> /\ out' # <<>>) =>
                /\ frameIndex' = 0
                /\ Len(out') = (CASE variant = "rvv5" -> 18 + 3 * Pow2(BPP)
                                  [] variant = "rvv2" -> 16 + 3 * Pow2(BPP)
                                  [] variant = "rv1" -> 14
                                  [] OTHER -> 16)
                /\ Slice(out', 1, 2) = <<82, 86>>
                /\ IsGif => Slice(out', 1, 3) = <<82, 86, 86>>
          /\ (out # <<>>) =>
                LET new == frameIndex' - frameIndex
                    recs == DecRecords(out', Len(out) + 1, DecFormat(out'),
                                       DecGeometry(out').bpt)
                IN  /\ new >= 0
                    /\ IF variant = "rv1"
                       THEN Len(out') - Len(out) = new * width * height
                       ELSE /\ Len(recs) = new
                            /\ \A j \in 1..new : recs[j].count = Len(updLog'[frameIndex + j])
      ]_vars

\* a GIF encoder has closed an output that holds the header, the palette and
\* the records of three frames
WriteOrderWitness ==
    /\ IsGif /\ pc = "closed" /\ frameIndex = 3
    /\ Len(out) > 18 + 3 * Pow2(BPP) + 3 * 3

\* ------------------------------------------------ the two-phase writer
\* The audio-bearing variant writes its file in two phases: the header's
\* space is reserved with zero bytes, the video records are streamed and
\* counted, one byte pads an odd count, the audio samples follow, and the
\* header is written back over the reserved space.  Its fields are the RV
\* header's, followed by the two region offsets, the sample rate and the
\* sample count.
MaxSamples == 2

AudioHeader ==
    MagicRV \o <<4>> \o U16LE(width) \o U16LE(height) \o <<TILE_W, TILE_H, BITS>>
        \o U16LE(fps) \o U32LE(frameIndex)
        \o U32LE(Len(HeaderRv) + 16) \o U32LE(audioOffset) \o U32LE(8000)
        \o U32LE(sampleCount)

\* The frame records of the video phase: no update, one update at tile 0,
\* one update after a gap of 255 tiles; their lengths are 3, 12 and 13.
AudioRecords ==
    { FrameHeader(FALSE, u) \o EncodeUpdates(u) :
        u \in {s \in SkipInputs :
                 /\ Len(s) <= 1
                 /\ \A j \in 1..Len(s) : s[j].index \in {0, 255} /\ s[j].data[1] = 255} }

InitAudio ==
    /\ variant = "audio" /\ pc = "start"
    /\ width = 2 * TILE_W /\ height = TILE_H /\ BITS = 8 /\ fps = 25
    /\ nbFrames = 0 /\ ffmpeg = "none" /\ stream = <<>>
    /\ pipe = <<>> /\ emitted = 0 /\ rgbBuf = <<>>
    /\ frames = <<>> /\ prevTiles = Null /\ frameIndex = 0 /\ out = <<>>
    /\ tilesLog = <<>> /\ keyLog = <<>> /\ prevLog = <<>> /\ updLog = <<>>
    /\ InitGifIdle
    /\ InitSkipIdle
    /\ InitAudioIdle

\* reserve header space with zero bytes
AudioReserve ==
    /\ variant = "audio" /\ pc = "start"
    /\ out' = BufferAlloc(Len(AudioHeader))
    /\ pc' = "video"
    /\ UNCHANGED <<variant, prevTiles, frameIndex>>
    /\ UNCHANGED <<gifVars, logVars, rvVars, skipVars, audioVars>>

\* stream one video frame record, counting the bytes written
AudioVideo ==
    /\ variant = "audio" /\ pc = "video" /\ frameIndex < MaxFrames
    /\ \E rec \in AudioRecords :
        /\ out' = out \o rec
        /\ videoBytes' = videoBytes + Len(rec)
    /\ frameIndex' = frameIndex + 1
    /\ UNCHANGED <<variant, pc, prevTiles, audioOffset, sampleCount>>
    /\ UNCHANGED <<gifVars, logVars, rvVars, skipVars>>

\* Fault injection: no padding byte after an odd video byte count.
AudioVideoEndNoPad ==
    /\ variant = "audio" /\ pc = "video"
    /\ audioOffset' = Len(out)
    /\ pc' = "audio"
    /\ UNCHANGED <<variant, prevTiles, frameIndex, out, videoBytes, sampleCount>>
    /\ UNCHANGED <<gifVars, logVars, rvVars, skipVars>>

\* the video decoder has terminated: pad one byte if the video byte count
\* is odd; the audio region starts right after
AudioVideoEnd ==
    /\ variant = "audio" /\ pc = "video"
    /\ out' = IF videoBytes % 2 = 1 THEN out \o <<0>> ELSE out
    /\ audioOffset' = Len(out')
    /\ pc' = "audio"
    /\ UNCHANGED <<variant, prevTiles, frameIndex, videoBytes, sampleCount>>
    /\ UNCHANGED <<gifVars, logVars, rvVars, skipVars>>

\* stream one audio sample (signed 16-bit little-endian mono), counting samples
AudioSample ==
    /\ variant = "audio" /\ pc = "audio" /\ sampleCount < MaxSamples
    /\ \E s \in {0, 256, 65535} : out' = out \o U16LE(s)
    /\ sampleCount' = sampleCount + 1
    /\ UNCHANGED <<variant, pc, prevTiles, frameIndex, videoBytes, audioOffset>>
    /\ UNCHANGED <<gifVars, logVars, rvVars, skipVars>>

\* both phases are complete: the header is written back at the file's start
AudioFinalize ==
    /\ variant = "audio" /\ pc = "audio"
    /\ out' = AudioHeader \o SubSeq(out, Len(AudioHeader) + 1, Len(out))
    /\ pc' = "done"
    /\ UNCHANGED <<variant, prevTiles, frameIndex>>
    /\ UNCHANGED <<gifVars, logVars, rvVars, skipVars, audioVars>>

NextAudio ==
    \/ AudioReserve
    \/ AudioVideo
    \/ AudioVideoEnd
    \/ AudioSample
    \/ AudioFinalize

SpecAudio == InitAudio /\ [][NextAudio]_vars

\* C24: in the audio-bearing variant the audio region begins at an even byte
\* offset, which is the end of the video region plus one padding byte when
\* the video byte count is odd; the header's audio offset field is written
\* only after the video phase and holds exactly that offset.
AudioAlignment ==
    variant = "audio" =>
        LET H == Len(AudioHeader)
            videoEnd == H + videoBytes
        IN  /\ pc = "video" => Len(out) = videoEnd
            /\ pc \in {"video", "audio"} => SubSeq(out, 1, H) = BufferAlloc(H)
            /\ pc \in {"audio", "done"} =>
                 /\ audioOffset % 2 = 0
                 /\ audioOffset = videoEnd + (IF videoBytes % 2 = 1 THEN 1 ELSE 0)
                 /\ Len(out) = audioOffset + 2 * sampleCount
            /\ pc = "done" =>
                 /\ SubSeq(out, 1, H) = AudioHeader
                 /\ Slice(out, H - 11, 4) = U32LE(audioOffset)

AudioAlignmentWitness ==
    /\ variant = "audio" /\ pc = "done"
    /\ videoBytes % 2 = 1 /\ frameIndex >= 2 /\ sampleCount > 0
    /\ ByteAt(out, audioOffset) = 0

\* C25: every encoder writes exactly one frame record per input frame, in
\* input order: the records of the output are as many as the frames taken in,
\* record k lists the tiles computed for frame k, and a frame in which no tile
\* changed still has its record, a frame header with count 0 and no tile data.
\* RV v1, which has no records, writes one raw frame per input frame.
OneRecordPerFrame ==
    /\ Encoding =>
         LET recs == Records
             g == DecGeometry(out)
             hdr == IF HasFlags THEN 3 ELSE 2
         IN  /\ Len(recs) = frameIndex /\ Len(frames) = frameIndex
             /\ (IsRv /\ frameRGBSize > 0) =>
                  frameIndex = (Len(stream) - Len(pipe)) \div frameRGBSize
             /\ \A k \in 1..Len(recs) :
                  /\ recs[k].count = Len(updLog[k])
                  /\ Len(recs[k].updates) = Len(updLog[k])
                  /\ HasFlags => recs[k].flags = (IF keyLog[k] THEN 1 ELSE 0)
                  /\ \A j \in 1..Len(updLog[k]) :
                       /\ recs[k].updates[j].index = updLog[k][j]
                       /\ recs[k].updates[j].data = tilesLog[k][updLog[k][j] + 1]
             /\ (frameIndex >= 1 /\ updLog[frameIndex] = <<>>) =>
                  DecRecords(SubSeq(out, 1, Len(out) - hdr), g.body, DecFormat(out), g.bpt)
                      = SubSeq(recs, 1, frameIndex - 1)
    /\ (variant = "rv1" /\ pc \in {"run", "closed"} /\ frameRGBSize > 0) =>
         /\ Len(frames) = frameIndex
         /\ frameIndex = (Len(stream) - Len(pipe)) \div frameRGBSize
         /\ Len(out) = Len(HeaderRv1) + frameIndex * framePixels

\* an unchanged frame between two frames that carry tiles
OneRecordPerFrameWitness ==
    /\ Encoding /\ frameIndex >= 3
    /\ updLog[2] = <<>> /\ Records[2].count = 0 /\ Records[2].updates = <<>>
    /\ updLog[3] # <<>> /\ Records[3].count > 0

\* C26: for a canvas whose sides are multiples of 8, extractTiles returns
\* tilesX * tilesY tiles; tile ty * tilesX + tx holds the 64 samples of rows
\* 8ty..8ty+7 and columns 8tx..8tx+7, row by row (packed by packTile in the GIF
\* encoders, one byte or one 16-bit word each in the video encoder); the cells
\* of the tiles are pairwise distinct and cover the canvas, which is left as
\* it was composited.
TileGeometry ==
    /\ (IsGif /\ frames # <<>>) =>
         LET tilesX == WIDTH \div 8
             tilesY == HEIGHT \div 8
             tiles == tilesLog[Len(tilesLog)]
             cell(tx, ty, k) == (8 * ty + (k \div 8)) * WIDTH + 8 * tx + (k % 8) + 1
         IN  /\ Len(tiles) = tilesX * tilesY
             /\ Len(gifFB) = WIDTH * HEIGHT
             /\ \A ty \in 0..(tilesY - 1) : \A tx \in 0..(tilesX - 1) :
                  tiles[ty * tilesX + tx + 1]
                      = packTile([k \in 1..64 |-> gifFB[cell(tx, ty, k - 1)]])
             /\ tilesX * tilesY * 64 = WIDTH * HEIGHT
             /\ { cell(p[1], p[2], p[3]) :
                     p \in (0..(tilesX - 1)) \X (0..(tilesY - 1)) \X (0..63) }
                    = 1..(WIDTH * HEIGHT)
    /\ (IsRv /\ frames # <<>>) =>
         LET tilesX == width \div 8
             tilesY == height \div 8
             tiles == tilesLog[Len(tilesLog)]
             canvas == Quantize(frames[Len(frames)])
             cell(tx, ty, k) == (8 * ty + (k \div 8)) * width + 8 * tx + (k % 8) + 1
         IN  /\ Len(tiles) = tilesX * tilesY
             /\ \A ty \in 0..(tilesY - 1) : \A tx \in 0..(tilesX - 1) :
                  LET t == tiles[ty * tilesX + tx + 1]
                  IN  IF BITS = 8
                      THEN t = [k \in 1..64 |-> canvas[cell(tx, ty, k - 1)]]
                      ELSE /\ Len(t) = 128
                           /\ \A k \in 1..64 :
                                t[2 * k - 1] + 256 * t[2 * k] = canvas[cell(tx, ty, k - 1)]

\* a canvas of two tiles side by side that differ, with a tile whose rows differ
TileGeometryWitness ==
    /\ IsGif /\ frames # <<>> /\ WIDTH = 2 * TILE
    /\ tilesLog[Len(tilesLog)][1] # tilesLog[Len(tilesLog)][2]
    /\ \E r \in 1..7 : SubSeq(gifFB, 1, 8) # SubSeq(gifFB, r * WIDTH + 1, r * WIDTH + 8)

\* C27: every frame record of the legacy RVV2 encoder is a 16-bit
\* little-endian count followed by that many pairs of a 16-bit little-endian
\* tile index and the tile's bytes, indices ascending, with no flag byte and
\* no skip bytes; the first record lists every tile, each later record exactly
\* the tiles whose packed bytes differ from the preceding frame's.
FlatRecords ==
    (variant = "rvv2" /\ Encoding) =>
        LET recs == Records
            g == DecGeometry(out)
            n == Len(recs)
            end[k \in 0..n] ==
                IF k = 0 THEN g.body - 1
                ELSE end[k - 1] + 2 + recs[k].count * (2 + BYTES_PER_TILE)
        IN  /\ n = Len(tilesLog)
            /\ end[n] = Len(out)
            /\ \A k \in 1..n :
                 LET r == recs[k]
                     listed == {r.updates[j].index : j \in 1..Len(r.updates)}
                 IN  /\ U16At(out, end[k - 1] + 1) = r.count
                     /\ Len(r.updates) = r.count
                     /\ \A j \in 1..r.count :
                          LET at == end[k - 1] + 3 + (j - 1) * (2 + BYTES_PER_TILE)
                          IN  /\ U16At(out, at) = r.updates[j].index
                              /\ r.updates[j].index \in 0..(TILE_COUNT - 1)
                              /\ SubSeq(out, at + 2, at + 1 + BYTES_PER_TILE)
                                    = tilesLog[k][r.updates[j].index + 1]
                              /\ j > 1 => r.updates[j - 1].index < r.updates[j].index
                     /\ listed = IF k = 1 THEN 0..(TILE_COUNT - 1)
                                 ELSE {i \in 0..(TILE_COUNT - 1) :
                                          tilesLog[k][i + 1] # tilesLog[k - 1][i + 1]}

\* a first record of two tiles, then a record of one tile and an empty one
FlatRecordsWitness ==
    /\ variant = "rvv2" /\ Encoding /\ frameIndex >= 3 /\ TILE_COUNT = 2
    /\ Records[1].count = 2
    /\ \E k \in 2..3 : Records[k].count = 1
    /\ \E k \in 2..3 : Records[k].count = 0

\* C29: in the video encoders the data callback returns for every chunk, and
\* whenever it has returned the buffered residue is shorter than one frame
\* (width * height * 3 bytes) and the frames written so far are the whole
\* frames among the bytes received.
BoundedResidue ==
    IsVideo =>
        LET received == Len(stream) - Len(pipe)
        IN  /\ pc # "spin"
            /\ (pc \in {"run", "closed"} /\ received > 0) =>
                 /\ Len(rgbBuf) < frameRGBSize
                 /\ frameIndex * frameRGBSize <= received
                 /\ received < (frameIndex + 1) * frameRGBSize
                 /\ Len(rgbBuf) = received - frameIndex * frameRGBSize

\* C30: for the same probed geometry and the same decoder bytes, RV v2/v3 run
\* with 8 bits and the dedicated RV v2 encoder write the same bytes, header
\* and frame records, and hold the same prevTiles and frameIndex after every
\* frame.  Both encoders are run on the bytes delivered so far, and the
\* encoder of the current run is where its own run says.
VariantEquivalence ==
    (IsRv /\ BITS = 8 /\ pc \in {"run", "closed"} /\ frameRGBSize > 0) =>
        LET start(h) == [rgbBuf |-> SubSeq(stream, 1, Len(stream) - Len(pipe)),
                         out |-> h, prevTiles |-> Null, frameIndex |-> 0,
                         frames |-> <<>>, tilesLog |-> <<>>, keyLog |-> <<>>,
                         prevLog |-> <<>>, updLog |-> <<>>]
        IN  \A a \in {RvWhile("rv23", start(HeaderRv))} :
            \A b \in {RvWhile("rv2", start(HeaderRv2))} :
                /\ a.out = b.out
                /\ a.prevTiles = b.prevTiles /\ a.frameIndex = b.frameIndex
                /\ a.prevLog = b.prevLog /\ a.tilesLog = b.tilesLog
                /\ a.rgbBuf = b.rgbBuf
                /\ out = a.out /\ prevTiles = a.prevTiles /\ frameIndex = a.frameIndex

\* the parameterized encoder at 8 bits after a keyframe and a difference
\* frame that rewrites one tile of two
VariantEquivalenceWitness ==
    /\ variant = "rv23" /\ BITS = 8 /\ pc = "closed" /\ frameIndex >= 2
    /\ Len(updLog[1]) = 2 /\ Len(updLog[2]) = 1
    /\ out # HeaderRv

\* The length of the file when it holds the header and the whole records of
\* the frames counted so far: 3 bytes of frame header, and per update its
\* skip bytes and its tile; for RV v1 one byte per pixel.
WholeRecordsLength ==
    IF variant = "rv1" THEN Len(HeaderRv1) + frameIndex * framePixels
    ELSE LET rec(k) ==
                 LET ix == updLog[k]
                     upTo[j \in 0..Len(ix)] ==
                         IF j = 0 THEN 3
                         ELSE upTo[j - 1]
                                + ((ix[j] - (IF j = 1 THEN 0 ELSE ix[j - 1] + 1)) \div 255) + 1
                                + RvBytesPerTile
                 IN  upTo[Len(ix)]
             total[k \in 0..frameIndex] ==
                 IF k = 0 THEN Len(VideoHeader) ELSE total[k - 1] + rec(k)
         IN  total[frameIndex]

\* C31: in the video encoders the file is closed once, by the decoder's close
\* event, when the decoder runs no more; once it is closed it stays closed
\* and no byte is written to it, whatever callbacks follow; and whenever a
\* callback has returned the file holds whole records only.
NoWriteAfterClose ==
    [][ IsVideo =>
          /\ pc = "closed" => (pc' = "closed" /\ out' = out /\ frameIndex' = frameIndex)
          /\ (pc' = "closed" /\ pc # "closed") =>
                (pc = "run" /\ ffmpeg' # "running" /\ out' = out)
          /\ pc' \in {"run", "closed"} => Len(out') = WholeRecordsLength' ]_vars

\* the file was closed after a data callback wrote two records, the second
\* with fewer tiles than the first, and after a decoder that died mid-frame
NoWriteAfterCloseWitness ==
    /\ IsRv /\ pc = "closed" /\ frameIndex >= 2
    /\ Len(updLog[1]) = 2 /\ Len(updLog[2]) = 1
    /\ ffmpeg = "aborted" /\ rgbBuf # <<>>
    /\ Len(out) = WholeRecordsLength

====
